---------------------------- MODULE Spec2Model ----------------------------
(***************************************************************************)
(* Integrity & Verification Engine of the transparency portal:             *)
(* canonical serialization, hashing, signing, signature verification,      *)
(* status resolution (utils/crypto), key initialization, and the routes    *)
(* that create, update and verify records (routes/budgets, projects,       *)
(* vendors, transactions, verification).                                   *)
(*                                                                         *)
(* Conventions.  A JavaScript value is a record with a type tag t.  A      *)
(* JavaScript object is an association list (a sequence of [k, v] members  *)
(* in insertion order).  SHA-256 and RSA are idealised: Sha256 is          *)
(* injective, and a signature verifies exactly under the public half of    *)
(* the pair that made it and for the digest it was made over.  Wall-clock  *)
(* timestamps (verifiedAt, issuedAt) and random tokens are left out of     *)
(* results.                                                                *)
(***************************************************************************)
EXTENDS Integers, Sequences, FiniteSets, TLC

\* ------------------------------------------------------------------ bounds
NKeyPairs == 2          \* RSA key pairs that exist in the model
MaxSigs == 2            \* approvals passed to one completeVerification call
NProcs == 3             \* processes that run loadKeys concurrently

KeyPairs == 1..NKeyPairs

\* ------------------------------------------------------- JavaScript values
Null == [t |-> "null", s |-> "", n |-> 0]
Undefined == [t |-> "undefined", s |-> "", n |-> 0]
Str(s) == [t |-> "string", s |-> s, n |-> 0]
Num(n) == [t |-> "number", s |-> "", n |-> n]
\* the string node-postgres returns for a DECIMAL(15,2) column holding n
DecimalStr(n) == [t |-> "string", s |-> "0.00", n |-> n]
\* a uuid string produced by uuid_generate_v4()
Uuid(n) == [t |-> "string", s |-> "uuid", n |-> n]

\* a plain object held as a field value: its members in insertion order
Obj(members) == [t |-> "object", members |-> members]
\* a function
Func == [t |-> "function", s |-> "", n |-> 0]
\* a Buffer holding the bytes numbered n
Buffer(n) == [t |-> "buffer", s |-> "", n |-> n]

IsNullish(v) == v.t \in {"null", "undefined"}

\* JavaScript truthiness, as used by `a || b`
Truthy(v) ==
    /\ ~IsNullish(v)
    /\ ~(v.t = "string" /\ "s" \in DOMAIN v /\ v.s = "" /\ v.n = 0)
    /\ ~(v.t = "number" /\ v.n = 0)

\* ------------------------------------------------------ JavaScript objects
Member(k, v) == [k |-> k, v |-> v]

ObjectKeys(obj) == [i \in 1..Len(obj) |-> obj[i].k]

HasKey(obj, k) == \E i \in 1..Len(obj) : obj[i].k = k

\* obj[k]: undefined for a key the object does not have
Get(obj, k) ==
    IF HasKey(obj, k)
    THEN obj[CHOOSE i \in 1..Len(obj) : obj[i].k = k].v
    ELSE Undefined

\* obj with obj[k] = v: an existing key keeps its position, a new one is appended
Put(obj, k, v) ==
    IF HasKey(obj, k)
    THEN [i \in 1..Len(obj) |-> IF obj[i].k = k THEN Member(k, v) ELSE obj[i]]
    ELSE Append(obj, Member(k, v))

RECURSIVE Spread(_, _)
\* { ...a, ...b }
Spread(a, b) ==
    IF b = <<>> THEN a
    ELSE Spread(Put(a, Head(b).k, Head(b).v), Tail(b))

\* every column and request field name, in ascending UTF-16 order: the order
\* Array.prototype.sort() puts keys in
KeyOrder ==
    << "address", "allocated_amount", "amount", "budget_id", "canonical_json",
       "contact_email", "contact_phone", "created_at", "department",
       "description", "document_hash", "document_url", "end_date", "id",
       "project_id", "project_name", "record_hash", "spent_amount",
       "start_date", "tax_id", "total_amount", "transaction_date",
       "transaction_type", "updated_at", "vendor_id", "vendor_name",
       "verification_status", "year" >>

\* ------------------------------------------------------------ CryptoUtils
excludeFields ==
    {"record_hash", "created_at", "updated_at", "verification_status",
     "canonical_json"}

\* JSON.stringify leaves a property out when its value is a function or
\* undefined
Omitted(v) == v.t \in {"function", "undefined"}

RECURSIVE JsonValue(_)
\* JSON.stringify of one property value: a Date is written as its ISO string,
\* a Buffer as its toJSON() object, a plain object member by member in
\* insertion order
JsonValue(v) ==
    IF v.t = "date" THEN [t |-> "string", s |-> "iso", n |-> v.n]
    ELSE IF v.t = "buffer"
    THEN Obj(<<Member("type", Str("Buffer")), Member("data", Num(v.n))>>)
    ELSE IF v.t = "object" /\ "members" \in DOMAIN v
    THEN LET kept == SelectSeq(v.members, LAMBDA m : ~Omitted(m.v))
         IN  Obj([i \in 1..Len(kept) |-> Member(kept[i].k, JsonValue(kept[i].v))])
    ELSE v

createCanonicalJsonKeepsStatus(record) ==
    LET keep(k) == /\ HasKey(record, k)
                   /\ k \notin excludeFields \ {"verification_status"}
                   /\ ~IsNullish(Get(record, k))
                   /\ ~Omitted(Get(record, k))
        sorted == SelectSeq(KeyOrder, keep)
    IN  [i \in 1..Len(sorted) |-> Member(sorted[i], JsonValue(Get(record, sorted[i])))]

createCanonicalJsonDropsId(record) ==
    LET keep(k) == /\ HasKey(record, k)
                   /\ k \notin excludeFields \cup {"id"}
                   /\ ~IsNullish(Get(record, k))
                   /\ ~Omitted(Get(record, k))
        sorted == SelectSeq(KeyOrder, keep)
    IN  [i \in 1..Len(sorted) |-> Member(sorted[i], JsonValue(Get(record, sorted[i])))]

\* the JSON text of the record's non-excluded, non-null members in sorted key
\* order, as the list of its members
createCanonicalJson(record) ==
    LET keep(k) == /\ HasKey(record, k)
                   /\ k \notin excludeFields
                   /\ ~IsNullish(Get(record, k))
                   /\ ~Omitted(Get(record, k))
        sorted == SelectSeq(KeyOrder, keep)
    IN  [i \in 1..Len(sorted) |-> Member(sorted[i], JsonValue(Get(record, sorted[i])))]

\* crypto.createHash('sha256').update(text).digest()
Sha256(text) == [sha256 |-> text]

\* .digest('hex'): the 64-character hex string of a digest
Hex(digest) == [t |-> "string", hex |-> digest]

generateHash(record) == Hex(Sha256(createCanonicalJson(record)))

\* PEM strings of key pair k
PrivatePem(k) == [t |-> "string", pem |-> "RSA PRIVATE KEY", pair |-> k]
PublicPem(k) == [t |-> "string", pem |-> "PUBLIC KEY", pair |-> k]

IsPrivatePem(v) == "pem" \in DOMAIN v /\ v.pem = "RSA PRIVATE KEY"
IsPublicPem(v) == "pem" \in DOMAIN v /\ v.pem = "PUBLIC KEY"

\* a CryptoUtils instance holding key pair k
Engine(k) == [privateKey |-> PrivatePem(k), publicKey |-> PublicPem(k)]

\* forge.util.encode64(privateKeyObj.sign(hash)); flipped: the bytes were
\* altered after signing
SignatureB64(digest, k, flipped) ==
    [t |-> "string", b64 |-> [digest |-> digest, pair |-> k, flipped |-> flipped]]

\* whether RSA-decrypting the signature bytes with the public key of `pem`
\* yields a well-formed PKCS#1 block
WellFormedUnder(signature, pem) ==
    /\ "b64" \in DOMAIN signature
    /\ ~signature.b64.flipped
    /\ signature.b64.pair = pem.pair

\* a thrown Error
Throw(msg) == [throw |-> msg]
IsThrow(r) == "throw" \in DOMAIN r

signRecord(self, record, signerInfo) ==
    LET hash == Sha256(createCanonicalJson(record))
    IN  IF ~IsPrivatePem(self.privateKey)
        THEN Throw("Failed to create digital signature")
        ELSE [ signature |-> SignatureB64(hash, self.privateKey.pair, FALSE),
               publicKey |-> self.publicKey,
               signerInfo |->
                   [ name |-> IF Truthy(signerInfo.name) THEN signerInfo.name
                              ELSE Str("System"),
                     role |-> IF Truthy(signerInfo.role) THEN signerInfo.role
                              ELSE Str("Automated"),
                     email |-> IF Truthy(signerInfo.email) THEN signerInfo.email
                               ELSE Str("system@transparency.gov") ],
               algorithm |-> "RSA-SHA256" ]

verifySignatureIgnoresRecord(self, record, signature, publicKey) ==
    LET keyToUse == IF Truthy(publicKey) THEN publicKey ELSE self.publicKey
    IN  IF ~IsPublicPem(keyToUse)
        THEN [isValid |-> FALSE, error |-> "Invalid PEM formatted message."]
        ELSE IF ~WellFormedUnder(signature, keyToUse)
        THEN [isValid |-> FALSE, error |-> "Encryption block is invalid."]
        ELSE [isValid |-> TRUE, algorithm |-> "RSA-SHA256"]

verifySignature(self, record, signature, publicKey) ==
    LET hash == Sha256(createCanonicalJson(record))
        keyToUse == IF Truthy(publicKey) THEN publicKey ELSE self.publicKey
    IN  IF ~IsPublicPem(keyToUse)
        THEN \* publicKeyFromPem throws; caught
             [isValid |-> FALSE, error |-> "Invalid PEM formatted message."]
        ELSE IF ~WellFormedUnder(signature, keyToUse)
        THEN \* publicKeyObj.verify throws; caught
             [isValid |-> FALSE, error |-> "Encryption block is invalid."]
        ELSE [isValid |-> signature.b64.digest = hash, algorithm |-> "RSA-SHA256"]

verifyRecordIntegrity(record, storedHash) ==
    LET computedHash == generateHash(record)
    IN  [ isValid |-> computedHash = storedHash,
          storedHash |-> storedHash,
          computedHash |-> computedHash ]


completeVerificationSignaturesOnly(self, record, storedHash, signatures) ==
    LET hashVerification == verifyRecordIntegrity(record, storedHash)
        signer(sig) == [ name |-> sig.approver_name, role |-> sig.approver_role,
                         email |-> sig.approver_email, signedAt |-> sig.signed_at ]
        one(sig) ==
            LET v == verifySignature(self, record, sig.signature, sig.public_key)
            IN  IF "error" \in DOMAIN v
                THEN [isValid |-> v.isValid, error |-> v.error, signer |-> signer(sig)]
                ELSE [isValid |-> v.isValid, algorithm |-> v.algorithm,
                      signer |-> signer(sig)]
        signatureVerifications == [i \in 1..Len(signatures) |-> one(signatures[i])]
        allSignaturesValid ==
            /\ Len(signatureVerifications) > 0
            /\ \A i \in 1..Len(signatureVerifications) : signatureVerifications[i].isValid
    IN  [ recordId |-> Get(record, "id"),
          verificationStatus |->
              IF allSignaturesValid THEN "verified"
              ELSE IF hashVerification.isValid /\ Len(signatureVerifications) = 0
              THEN "pending"
              ELSE "suspicious",
          hashVerification |-> hashVerification,
          signatureVerifications |-> signatureVerifications,
          overallValid |->
              /\ hashVerification.isValid
              /\ (allSignaturesValid \/ Len(signatureVerifications) = 0) ]

completeVerificationAnyValid(self, record, storedHash, signatures) ==
    LET hashVerification == verifyRecordIntegrity(record, storedHash)
        signer(sig) == [ name |-> sig.approver_name, role |-> sig.approver_role,
                         email |-> sig.approver_email, signedAt |-> sig.signed_at ]
        one(sig) ==
            LET v == verifySignature(self, record, sig.signature, sig.public_key)
            IN  IF "error" \in DOMAIN v
                THEN [isValid |-> v.isValid, error |-> v.error, signer |-> signer(sig)]
                ELSE [isValid |-> v.isValid, algorithm |-> v.algorithm,
                      signer |-> signer(sig)]
        signatureVerifications == [i \in 1..Len(signatures) |-> one(signatures[i])]
        allSignaturesValid ==
            \E i \in 1..Len(signatureVerifications) : signatureVerifications[i].isValid
    IN  [ recordId |-> Get(record, "id"),
          verificationStatus |->
              IF hashVerification.isValid /\ allSignaturesValid THEN "verified"
              ELSE IF hashVerification.isValid /\ Len(signatureVerifications) = 0
              THEN "pending"
              ELSE "suspicious",
          hashVerification |-> hashVerification,
          signatureVerifications |-> signatureVerifications,
          overallValid |->
              /\ hashVerification.isValid
              /\ (allSignaturesValid \/ Len(signatureVerifications) = 0) ]

completeVerificationPendingOnInvalid(self, record, storedHash, signatures) ==
    LET hashVerification == verifyRecordIntegrity(record, storedHash)
        signer(sig) == [ name |-> sig.approver_name, role |-> sig.approver_role,
                         email |-> sig.approver_email, signedAt |-> sig.signed_at ]
        one(sig) ==
            LET v == verifySignature(self, record, sig.signature, sig.public_key)
            IN  IF "error" \in DOMAIN v
                THEN [isValid |-> v.isValid, error |-> v.error, signer |-> signer(sig)]
                ELSE [isValid |-> v.isValid, algorithm |-> v.algorithm,
                      signer |-> signer(sig)]
        signatureVerifications == [i \in 1..Len(signatures) |-> one(signatures[i])]
        allSignaturesValid ==
            /\ Len(signatureVerifications) > 0
            /\ \A i \in 1..Len(signatureVerifications) : signatureVerifications[i].isValid
    IN  [ recordId |-> Get(record, "id"),
          verificationStatus |->
              IF hashVerification.isValid /\ allSignaturesValid THEN "verified"
              ELSE IF hashVerification.isValid THEN "pending"
              ELSE "suspicious",
          hashVerification |-> hashVerification,
          signatureVerifications |-> signatureVerifications,
          overallValid |->
              /\ hashVerification.isValid
              /\ (allSignaturesValid \/ Len(signatureVerifications) = 0) ]

\* signatures: approval rows, in the order the caller fetched them
\* completeVerification with overallValid taken from the hash alone
completeVerificationValidFromHashOnly(self, record, storedHash, signatures) ==
    LET hashVerification == verifyRecordIntegrity(record, storedHash)
        signer(sig) == [ name |-> sig.approver_name, role |-> sig.approver_role,
                         email |-> sig.approver_email, signedAt |-> sig.signed_at ]
        one(sig) ==
            LET v == verifySignature(self, record, sig.signature, sig.public_key)
            IN  IF "error" \in DOMAIN v
                THEN [isValid |-> v.isValid, error |-> v.error, signer |-> signer(sig)]
                ELSE [isValid |-> v.isValid, algorithm |-> v.algorithm,
                      signer |-> signer(sig)]
        signatureVerifications == [i \in 1..Len(signatures) |-> one(signatures[i])]
        allSignaturesValid ==
            /\ Len(signatureVerifications) > 0
            /\ \A i \in 1..Len(signatureVerifications) : signatureVerifications[i].isValid
    IN  [ recordId |-> Get(record, "id"),
          verificationStatus |->
              IF hashVerification.isValid /\ allSignaturesValid THEN "verified"
              ELSE IF hashVerification.isValid /\ Len(signatureVerifications) = 0
              THEN "pending"
              ELSE "suspicious",
          hashVerification |-> hashVerification,
          signatureVerifications |-> signatureVerifications,
          overallValid |-> hashVerification.isValid ]

completeVerification(self, record, storedHash, signatures) ==
    LET hashVerification == verifyRecordIntegrity(record, storedHash)
        signer(sig) == [ name |-> sig.approver_name, role |-> sig.approver_role,
                         email |-> sig.approver_email, signedAt |-> sig.signed_at ]
        one(sig) ==
            LET v == verifySignature(self, record, sig.signature, sig.public_key)
            IN  IF "error" \in DOMAIN v
                THEN [isValid |-> v.isValid, error |-> v.error, signer |-> signer(sig)]
                ELSE [isValid |-> v.isValid, algorithm |-> v.algorithm,
                      signer |-> signer(sig)]
        signatureVerifications == [i \in 1..Len(signatures) |-> one(signatures[i])]
        allSignaturesValid ==
            /\ Len(signatureVerifications) > 0
            /\ \A i \in 1..Len(signatureVerifications) : signatureVerifications[i].isValid
    IN  [ recordId |-> Get(record, "id"),
          verificationStatus |->
              IF hashVerification.isValid /\ allSignaturesValid THEN "verified"
              ELSE IF hashVerification.isValid /\ Len(signatureVerifications) = 0
              THEN "pending"
              ELSE "suspicious",
          hashVerification |-> hashVerification,
          signatureVerifications |-> signatureVerifications,
          overallValid |->
              /\ hashVerification.isValid
              /\ (allSignaturesValid \/ Len(signatureVerifications) = 0) ]

\* ---------------------------------------------------------------- state
VARIABLES
    inp,        \* arguments drawn for the engine's functions
    ret,        \* the last engine call and what it returned
    files,      \* the key files: content of private.pem and public.pem
    loader,     \* per process: position in loadKeys and the instance's keys
    db,         \* the tables: budgets, projects, vendors, transactions,
                \* approvals, audit_log, each a sequence of rows
    response,   \* the last HTTP request served and its response
    clients     \* per pooled database client: whether a transaction is open on
                \* it, and the position and locals of the handler that holds it

engineVars == <<inp, ret>>
keyVars == <<files, loader>>
dbVars == <<db, response, clients>>
vars == <<inp, ret, files, loader, db, response, clients>>

Procs == 1..NProcs

\* a file that does not exist
Absent == [t |-> "absent"]

NoEngineCall ==
    /\ inp = [self |-> Engine(1), record |-> <<>>, storedHash |-> Null, signatures |-> <<>>]
    /\ ret = [op |-> "none"]

NClients == 2

Clients == 1..NClients

\* every client of the pool idle, no transaction open
IdlePool ==
    clients = [c \in Clients |-> [pc |-> "idle", inTransaction |-> FALSE]]

EmptyDb ==
    /\ db = [ budgets |-> <<>>, projects |-> <<>>, vendors |-> <<>>,
              transactions |-> <<>>, approvals |-> <<>>, audit_log |-> <<>> ]
    /\ response = [route |-> "none"]
    /\ IdlePool

NoKeyFiles ==
    /\ files = [private |-> Absent, public |-> Absent]
    /\ loader = [p \in Procs |-> [pc |-> "start", privateKey |-> Null, publicKey |-> Null]]

\* ------------------------------------------ the engine's functions, applied
SeqsUpTo(S, n) == UNION {[1..m -> S] : m \in 0..n}

\* a budgets row as SELECT * returns it
BudgetRow(id, department, year, total_amount, description, record_hash, status) ==
    << Member("id", id), Member("department", department), Member("year", year),
       Member("total_amount", total_amount), Member("description", description),
       Member("created_at", [t |-> "date", s |-> "", n |-> 1]),
       Member("updated_at", [t |-> "date", s |-> "", n |-> 1]),
       Member("record_hash", record_hash),
       Member("verification_status", Str(status)),
       Member("canonical_json", Null) >>

EngineRecords ==
    { BudgetRow(Uuid(1), Str(d), Num(2024), DecimalStr(a), Null, Str("a1b2c3"), st) :
        d \in {"Education", "Health"}, a \in {500, 501},
        st \in {"pending", "verified"} }

\* the record with one field given another value
OtherValue(v) ==
    IF v.t = "number" THEN Num(v.n + 1)
    ELSE IF v.t = "string" /\ "s" \in DOMAIN v /\ v.s = "0.00" THEN DecimalStr(v.n + 1)
    ELSE IF v.t = "null" THEN Str("added")
    ELSE IF v.t = "date" THEN [t |-> "date", s |-> "", n |-> v.n + 1]
    ELSE IF v = Str("changed") THEN Str("changed again")
    ELSE Str("changed")

ChangedRecords(record) ==
    UNION { { Put(record, k, OtherValue(Get(record, k))), Put(record, k, Null) } :
              k \in {record[i].k : i \in 1..Len(record)} \ {"canonical_json"} }
            \ {record}

StoredHashes(record) ==
    { generateHash(record),
      generateHash(Put(record, "total_amount", DecimalStr(999))),
      Str("a1b2c3") }

ApprovalRow(name, signature, public_key) ==
    [ approver_name |-> Str(name), approver_role |-> Str("Director"),
      approver_email |-> Null, signed_at |-> 1,
      signature |-> signature, public_key |-> public_key,
      related_record_id |-> Uuid(1), related_record_type |-> "budget",
      approval_status |-> "approved" ]

OtherPair(k) == IF k = NKeyPairs THEN 1 ELSE k + 1

\* approvals a record can carry: made by pair k over the record and intact,
\* altered, stored with another or an unusable public key, made over other
\* content, or not a signature at all
Approvals(record) ==
    LET d == Sha256(createCanonicalJson(record))
        stale == Sha256(createCanonicalJson(Put(record, "total_amount", DecimalStr(999))))
    IN  { ApprovalRow("A", SignatureB64(d, k, FALSE), PublicPem(k)) : k \in KeyPairs }
        \cup { ApprovalRow("A", SignatureB64(d, k, FALSE), Str("")) : k \in KeyPairs }
        \cup { ApprovalRow("B", SignatureB64(d, 1, TRUE), PublicPem(1)),
               ApprovalRow("B", SignatureB64(d, 1, FALSE), PublicPem(OtherPair(1))),
               ApprovalRow("B", SignatureB64(d, 1, FALSE), Str("not a pem")),
               ApprovalRow("B", SignatureB64(stale, 1, FALSE), PublicPem(1)),
               ApprovalRow("B", Str("MEUCIQDxyz123"), PublicPem(1)) }

InitVerify ==
    /\ \E record \in EngineRecords :
       \E storedHash \in StoredHashes(record) :
       \E signatures \in SeqsUpTo(Approvals(record), MaxSigs) :
       \E k \in KeyPairs :
           inp = [ self |-> Engine(k), record |-> record,
                   storedHash |-> storedHash, signatures |-> signatures ]
    /\ ret = [op |-> "none"]
    /\ NoKeyFiles
    /\ EmptyDb

CallCompleteVerification ==
    /\ ret' = [ op |-> "completeVerification",
                result |-> completeVerification(inp.self, inp.record,
                                                inp.storedHash, inp.signatures) ]
    /\ UNCHANGED <<inp, keyVars, dbVars>>

\* the Signer holding pair k signs the record
CallSignRecord ==
    /\ \E k \in KeyPairs :
           ret' = [ op |-> "signRecord", signer |-> k,
                    result |-> signRecord(Engine(k), inp.record,
                                          [name |-> Str("System Administrator"),
                                           role |-> Str("System"),
                                           email |-> Str("admin@transparency.gov")]) ]
    /\ UNCHANGED <<inp, keyVars, dbVars>>

\* a signature just made is verified: as returned or altered, against the
\* signed record or a changed one, with any supplied public key
CallVerifySignature ==
    /\ ret.op = "signRecord"
    /\ \E record \in {inp.record} \cup ChangedRecords(inp.record) :
       \E signature \in { ret.result.signature,
                          SignatureB64(ret.result.signature.b64.digest, ret.signer, TRUE),
                          Str("MEUCIQDxyz123") } :
       \E publicKey \in {PublicPem(k) : k \in KeyPairs}
                        \cup {Null, Str(""), Str("not a pem")} :
           ret' = [ op |-> "verifySignature",
                    signer |-> ret.signer,
                    signed |-> ret.result,
                    record |-> record,
                    signature |-> signature,
                    publicKey |-> publicKey,
                    result |-> verifySignature(inp.self, record, signature, publicKey) ]
    /\ UNCHANGED <<inp, keyVars, dbVars>>

SpecVerify == InitVerify /\ [][CallCompleteVerification]_vars

\* signing and verifying one record: no approvals are drawn
InitSign ==
    /\ \E record \in EngineRecords : \E k \in KeyPairs :
           inp = [ self |-> Engine(k), record |-> record,
                   storedHash |-> generateHash(record), signatures |-> <<>> ]
    /\ ret = [op |-> "none"]
    /\ NoKeyFiles
    /\ EmptyDb

NextSign ==
    \/ CallSignRecord
    \/ CallVerifySignature

SpecSign == InitSign /\ [][NextSign]_vars

\* ------------------------------------- canonicalizing and hashing field maps
Reverse(seq) == [i \in 1..Len(seq) |-> seq[Len(seq) + 1 - i]]

Rotate(seq) == IF seq = <<>> THEN seq ELSE Append(Tail(seq), Head(seq))

\* a field map with a string, a decimal, a date, a null and a nested value
FieldMap(name, amount) ==
    << Member("id", Uuid(1)),
       Member("vendor_name", Str(name)),
       Member("address", Obj(<< Member("street", Str("1 Main St")),
                                Member("city", Str("Springfield")) >>)),
       Member("amount", DecimalStr(amount)),
       Member("transaction_date", [t |-> "date", s |-> "", n |-> 3]),
       Member("description", Null),
       Member("created_at", [t |-> "date", s |-> "", n |-> 1]),
       Member("record_hash", Str("a1b2c3")),
       Member("verification_status", Str("pending")) >>

FieldMaps == { FieldMap(name, amount) : name \in {"Acme", "Bolt"}, amount \in {500, 501} }

\* the same members inserted in another order, at the top level or inside
\* the nested value
Reorderings(record) ==
    LET nested == Get(record, "address")
        inner == Put(record, "address", Obj(Reverse(nested.members)))
    IN  { Reverse(record), Rotate(record), inner, Reverse(inner) }

\* one member of the nested value given another value
NestedChanges(record) ==
    LET nested == Get(record, "address")
    IN  { Put(record, "address", Obj(Put(nested.members, k, Str("changed")))) :
            k \in {nested.members[i].k : i \in 1..Len(nested.members)} }

\* a callable or a binary blob as a field value, or inside the nested value
Unsupported(record) ==
    LET nested == Get(record, "address")
    IN  { Put(record, "description", Func),
          Put(record, "description", Buffer(1)),
          Put(record, "address", Obj(Append(nested.members, Member("geo", Func)))) }

\* the record as the validated request body holds it: the amount a number
AsRequestBody(record) == Put(record, "amount", Num(Get(record, "amount").n))

InitCanon ==
    /\ \E a \in FieldMaps :
       \E b \in {a} \cup Reorderings(a) \cup ChangedRecords(a) \cup NestedChanges(a)
                    \cup Unsupported(a) \cup {AsRequestBody(a)} :
           inp = [a |-> IF b \in Unsupported(a) THEN b ELSE a, b |-> b]
    /\ ret = [op |-> "none"]
    /\ NoKeyFiles
    /\ EmptyDb

\* neither function throws for a field map: JSON.stringify leaves functions
\* out and writes a Buffer through its toJSON()
CallCreateCanonicalJson ==
    /\ ret' = [ op |-> "createCanonicalJson", threw |-> FALSE,
                a |-> createCanonicalJson(inp.a), b |-> createCanonicalJson(inp.b) ]
    /\ UNCHANGED <<inp, keyVars, dbVars>>

CallGenerateHash ==
    /\ ret' = [ op |-> "generateHash", threw |-> FALSE,
                a |-> generateHash(inp.a), b |-> generateHash(inp.b) ]
    /\ UNCHANGED <<inp, keyVars, dbVars>>

NextCanon ==
    \/ CallCreateCanonicalJson
    \/ CallGenerateHash

SpecCanon == InitCanon /\ [][NextCanon]_vars

\* ------------------------------------------------ CryptoUtils.loadKeys
\* One process's loadKeys, one file-system call per step.  Process p's
\* generateKeyPair yields pair p.
At(p, pc) == loader[p].pc = pc

Goto(p, pc) == loader' = [loader EXCEPT ![p].pc = pc]

\* fs.existsSync(privateKeyPath) && ...
ExistsPrivate(p) ==
    /\ At(p, "start")
    /\ Goto(p, IF files.private # Absent THEN "existsPublic" ELSE "generate")
    /\ UNCHANGED <<files, engineVars, dbVars>>

\* ... && fs.existsSync(publicKeyPath)
ExistsPublic(p) ==
    /\ At(p, "existsPublic")
    /\ Goto(p, IF files.public # Absent THEN "readPrivate" ELSE "generate")
    /\ UNCHANGED <<files, engineVars, dbVars>>

ReadPrivate(p) ==
    /\ At(p, "readPrivate")
    /\ loader' = [loader EXCEPT ![p].privateKey = files.private, ![p].pc = "readPublic"]
    /\ UNCHANGED <<files, engineVars, dbVars>>

ReadPublic(p) ==
    /\ At(p, "readPublic")
    /\ loader' = [loader EXCEPT ![p].publicKey = files.public, ![p].pc = "done"]
    /\ UNCHANGED <<files, engineVars, dbVars>>

generateKeyPair(p) ==
    /\ At(p, "generate")
    /\ loader' = [loader EXCEPT ![p].privateKey = PrivatePem(p),
                                ![p].publicKey = PublicPem(p),
                                ![p].pc = "writePrivate"]
    /\ UNCHANGED <<files, engineVars, dbVars>>

WritePrivate(p) ==
    /\ At(p, "writePrivate")
    /\ files' = [files EXCEPT !.private = loader[p].privateKey]
    /\ Goto(p, "writePublic")
    /\ UNCHANGED <<engineVars, dbVars>>

WritePublic(p) ==
    /\ At(p, "writePublic")
    /\ files' = [files EXCEPT !.public = loader[p].publicKey]
    /\ Goto(p, "done")
    /\ UNCHANGED <<engineVars, dbVars>>

loadKeys(p) ==
    \/ ExistsPrivate(p)
    \/ ExistsPublic(p)
    \/ ReadPrivate(p)
    \/ ReadPublic(p)
    \/ generateKeyPair(p)
    \/ WritePrivate(p)
    \/ WritePublic(p)

InitKeys == NoEngineCall /\ NoKeyFiles /\ EmptyDb

NextKeys == \E p \in Procs : loadKeys(p)

SpecKeys == InitKeys /\ [][NextKeys]_vars

\* --------------------------------- loadKeys on a keys directory left by
\* an earlier run: each file is absent, holds a half of the pair persisted
\* earlier (pair 0, which no generateKeyPair of this run yields), or holds
\* something else
NotAKey == Str("garbage")

StartFiles ==
    { [private |-> priv, public |-> pub] :
        priv \in {Absent, PrivatePem(0), NotAKey},
        pub \in {Absent, PublicPem(0), NotAKey} }

\* inp records the directory as it was when the processes started
InitKeysRestart ==
    /\ \E start \in StartFiles :
        /\ files = start
        /\ inp = [files |-> start]
    /\ ret = [op |-> "none"]
    /\ loader = [p \in Procs |-> [pc |-> "start", privateKey |-> Null, publicKey |-> Null]]
    /\ EmptyDb

\* the instance of process p, constructed, signs a record
SignAfterStartup(p) ==
    /\ At(p, "done")
    /\ ret' = [ op |-> "signRecord", signer |-> p,
                result |-> signRecord([ privateKey |-> loader[p].privateKey,
                                        publicKey |-> loader[p].publicKey ],
                                      FieldMap("Acme", 500),
                                      [ name |-> Str("System Administrator"),
                                        role |-> Str("System"),
                                        email |-> Str("admin@transparency.gov") ]) ]
    /\ UNCHANGED <<inp, keyVars, dbVars>>

NextKeysRestart ==
    \/ \E p \in Procs : loadKeys(p)
    \/ \E p \in Procs : SignAfterStartup(p)

SpecKeysRestart == InitKeysRestart /\ [][NextKeysRestart]_vars

\* ------------------------------------------------------------ database
MaxWrites == 3          \* rows of audit_log: writes the model follows
AuditLimit == 10        \* LIMIT of the verify route's history query

\* the singleton instance every route uses
cryptoUtils == Engine(1)

Date(n) == [t |-> "date", s |-> "", n |-> n]

\* every key name in the order a jsonb object keeps its keys in: shorter
\* keys first, keys of one length in byte order
JsonbKeyOrder ==
    << "id", "year", "amount", "tax_id", "address", "end_date", "budget_id",
       "vendor_id", "created_at", "department", "project_id", "start_date",
       "updated_at", "description", "record_hash", "vendor_name",
       "document_url", "project_name", "spent_amount", "total_amount",
       "contact_email", "contact_phone", "document_hash", "canonical_json",
       "allocated_amount", "transaction_date", "transaction_type",
       "verification_status" >>

\* a JSONB column written with a JSON text: the text is parsed, and the object
\* is stored and read back with its keys in jsonb order
Jsonb(text) ==
    [ t |-> "object",
      json |-> LET present(k) == HasKey(text, k)
                   ordered == SelectSeq(JsonbKeyOrder, present)
               IN  [i \in 1..Len(ordered) |-> Member(ordered[i], Get(text, ordered[i]))] ]

\* what a DECIMAL(15,2) column returns for a number written to it
ToDecimal(v) == IF v.t = "number" THEN DecimalStr(v.n) ELSE v

\* DECIMAL addition: spent_amount + $1
DecimalAdd(a, b) == DecimalStr(a.n + b.n)

\* x || null
OrNull(v) == IF Truthy(v) THEN v ELSE Null

IsUuid(v) == v.t = "string" /\ "s" \in DOMAIN v /\ v.s = "uuid"

\* index of the row with this id, 0 when there is none
RowIndex(table, id) ==
    IF \E i \in 1..Len(table) : Get(table[i], "id") = id
    THEN CHOOSE i \in 1..Len(table) : Get(table[i], "id") = id
    ELSE 0

\* record_hash ... NOT NULL UNIQUE
HashTaken(table, hash) == \E i \in 1..Len(table) : Get(table[i], "record_hash") = hash

\* audit_trigger_function: one audit_log row per inserted or updated row
Audited(log, table_name, id, action) ==
    Append(log, [ table_name |-> table_name, record_id |-> id, action |-> action,
                  changed_at |-> Len(log) + 1 ])

\* audit_trigger_function on UPDATE: the row before and after
AuditedUpdate(log, table_name, old, new) ==
    Append(log, [ table_name |-> table_name, record_id |-> Get(new, "id"),
                  action |-> "UPDATE", changed_at |-> Len(log) + 1,
                  old_values |-> old, new_values |-> new ])

OnlyKeys(body, keys) == \A i \in 1..Len(body) : body[i].k \in keys

IsString(v) == v.t = "string"
IsNumber(v) == v.t = "number"

\* Joi.string() without allow(''): a non-empty string
IsNonEmptyString(v) == IsString(v) /\ Truthy(v)

budgetSchema(body) ==
    /\ OnlyKeys(body, {"department", "year", "total_amount", "description"})
    /\ IsNonEmptyString(Get(body, "department"))
    /\ IsNumber(Get(body, "year"))
    /\ Get(body, "year").n >= 2000 /\ Get(body, "year").n <= 2100
    /\ IsNumber(Get(body, "total_amount")) /\ Get(body, "total_amount").n > 0
    /\ HasKey(body, "description") => IsString(Get(body, "description"))

updateBudgetSchema(body) ==
    /\ OnlyKeys(body, {"department", "year", "total_amount", "description"})
    /\ HasKey(body, "department") => IsNonEmptyString(Get(body, "department"))
    /\ HasKey(body, "year") =>
           /\ IsNumber(Get(body, "year"))
           /\ Get(body, "year").n >= 2000 /\ Get(body, "year").n <= 2100
    /\ HasKey(body, "total_amount") =>
           IsNumber(Get(body, "total_amount")) /\ Get(body, "total_amount").n > 0
    /\ HasKey(body, "description") => IsString(Get(body, "description"))

\* request bodies the model sends
Optional(k, values) == {<<>>} \cup {<<Member(k, v)>> : v \in values}

BudgetBodies ==
    { << Member("department", Str("Education")), Member("year", Num(2024)),
         Member("total_amount", Num(500)) >> \o d :
        d \in Optional("description", {Str(""), Str("Schools")}) }
    \cup { <<Member("department", Str("Education"))>> }

UpdateBodies ==
    { <<>>,
      <<Member("total_amount", Num(501))>>,
      <<Member("department", Str("Health"))>>,
      <<Member("department", Str("Education"))>>,
      <<Member("description", Str(""))>>,
      <<Member("year", Num(1999))>> }

Respond(route, status, body) == [route |-> route, status |-> status, body |-> body]

\* pool.connect(): the client a handler is given, the first idle one
Connected == CHOOSE c \in Clients :
                 /\ clients[c].pc = "idle"
                 /\ \A d \in Clients : clients[d].pc = "idle" => c <= d

\* the handler's client after BEGIN, the handler's statements and
\* client.release(): the transaction is over if COMMIT or ROLLBACK was sent,
\* and still open if the handler returned before either
ReleasedAfter(ended) ==
    clients' = [clients EXCEPT ![Connected] = [pc |-> "idle", inTransaction |-> ~ended]]

\* what can throw after the budget row is inserted: signRecord, when the
\* private key cannot be used, and the INSERT INTO approvals, on a database
\* error
CreateFailures == {"none", "signRecord", "approvals"}

\* the tables with the budget row, its audit entry and the approval row
WithBudgetAndApproval(database, newBudget, signatureData) ==
    [ database EXCEPT
        !.budgets = Append(@, newBudget),
        !.approvals = Append(@,
            [ approver_name |-> signatureData.signerInfo.name,
              approver_role |-> signatureData.signerInfo.role,
              approver_email |-> signatureData.signerInfo.email,
              signed_at |-> Len(database.approvals) + 1,
              signature |-> signatureData.signature,
              public_key |-> signatureData.publicKey,
              related_record_id |-> Get(newBudget, "id"),
              related_record_type |-> "budget",
              approval_status |-> "approved" ]),
        !.audit_log = Audited(@, "budgets", Get(newBudget, "id"), "INSERT") ]

\* the transaction without its ROLLBACK: the rows inserted before the throw stay
budgetTransactionKeepsInserted(database, newBudget, signatureData, thrownAt) ==
    IF thrownAt = "budgets" THEN database
    ELSE IF thrownAt = "none"
    THEN WithBudgetAndApproval(database, newBudget, signatureData)
    ELSE [ database EXCEPT
             !.budgets = Append(@, newBudget),
             !.audit_log = Audited(@, "budgets", Get(newBudget, "id"), "INSERT") ]

\* the tables after the handler's transaction: BEGIN, INSERT INTO budgets,
\* signRecord, INSERT INTO approvals and COMMIT, or ROLLBACK when one throws
budgetTransaction(database, newBudget, signatureData, thrownAt) ==
    IF thrownAt # "none" THEN database
    ELSE WithBudgetAndApproval(database, newBudget, signatureData)

\* POST /api/budgets
CreateBudget ==
    /\ Len(db.audit_log) < MaxWrites
    /\ \E body \in BudgetBodies :
        IF ~budgetSchema(body)
        THEN /\ response' = Respond("POST /api/budgets", 400, [error |-> "validation"])
             /\ UNCHANGED db
             /\ ReleasedAfter(FALSE)
        ELSE
        LET budgetData == body
            canonicalJson == createCanonicalJson(budgetData)
            recordHash == generateHash(budgetData)
            newBudget ==
                << Member("id", Uuid(Len(db.budgets) + 1)),
                   Member("department", Get(budgetData, "department")),
                   Member("year", Get(budgetData, "year")),
                   Member("total_amount", ToDecimal(Get(budgetData, "total_amount"))),
                   Member("description", OrNull(Get(budgetData, "description"))),
                   Member("created_at", Date(1)),
                   Member("updated_at", Date(1)),
                   Member("record_hash", recordHash),
                   Member("verification_status", Str("pending")),
                   Member("canonical_json", Jsonb(canonicalJson)) >>
            signatureData ==
                signRecord(cryptoUtils, newBudget,
                           [ name |-> Str("System Administrator"),
                             role |-> Str("System"),
                             email |-> Str("admin@transparency.gov") ])
        IN  \E failure \in CreateFailures :
            LET thrownAt ==
                    IF HashTaken(db.budgets, recordHash) THEN "budgets"
                    ELSE IF IsThrow(signatureData) THEN "signRecord"
                    ELSE failure
            IN  /\ db' = budgetTransaction(db, newBudget, signatureData, thrownAt)
                /\ ReleasedAfter(TRUE)
                /\ response' =
                     IF thrownAt # "none"
                     THEN Respond("POST /api/budgets", 500,
                                  [error |-> "Failed to create budget"])
                     ELSE Respond("POST /api/budgets", 201,
                                  [id |-> Get(newBudget, "id"), hash |-> recordHash])
    /\ UNCHANGED <<engineVars, keyVars>>

\* the row after UPDATE budgets SET <each key of value>, record_hash,
\* canonical_json, verification_status, updated_at
RECURSIVE SetColumns(_, _)
SetColumns(row, value) ==
    IF value = <<>> THEN row
    ELSE SetColumns(Put(row, Head(value).k,
                        IF Head(value).k = "total_amount" THEN ToDecimal(Head(value).v)
                        ELSE Head(value).v),
                    Tail(value))

\* PUT /api/budgets/:id
UpdateBudget ==
    /\ Len(db.audit_log) < MaxWrites
    /\ \E id \in {Uuid(n) : n \in 0..Len(db.budgets)} :
       \E value \in UpdateBodies :
        IF ~updateBudgetSchema(value)
        THEN /\ response' = Respond("PUT /api/budgets/:id", 400, [error |-> "validation"])
             /\ UNCHANGED db
             /\ ReleasedAfter(FALSE)
        ELSE IF RowIndex(db.budgets, id) = 0
        THEN /\ response' = Respond("PUT /api/budgets/:id", 404,
                                    [error |-> "Budget not found"])
             /\ UNCHANGED db
             /\ ReleasedAfter(FALSE)
        ELSE
        LET i == RowIndex(db.budgets, id)
            existingBudget == db.budgets[i]
            updatedData == Spread(existingBudget, value)
            canonicalJson == createCanonicalJson(updatedData)
            recordHash == generateHash(updatedData)
            updatedBudget ==
                Put(Put(Put(Put(SetColumns(existingBudget, value),
                    "record_hash", recordHash),
                    "canonical_json", Jsonb(canonicalJson)),
                    "verification_status", Str("pending")),
                    "updated_at", Date(2))
        IN  IF \E j \in 1..Len(db.budgets) :
                   j # i /\ Get(db.budgets[j], "record_hash") = recordHash
            THEN /\ response' = Respond("PUT /api/budgets/:id", 500,
                                        [error |-> "Failed to update budget"])
                 /\ UNCHANGED db
                 /\ ReleasedAfter(TRUE)
            ELSE /\ db' = [ db EXCEPT
                       !.budgets[i] = updatedBudget,
                       !.audit_log = AuditedUpdate(@, "budgets", existingBudget,
                                                   updatedBudget) ]
                 /\ ReleasedAfter(TRUE)
                 /\ response' = Respond("PUT /api/budgets/:id", 200,
                                        [id |-> id, hash |-> recordHash])
    /\ UNCHANGED <<engineVars, keyVars>>

projectSchema(body) ==
    /\ OnlyKeys(body, {"budget_id", "project_name", "allocated_amount",
                       "description", "start_date", "end_date"})
    /\ IsUuid(Get(body, "budget_id"))
    /\ IsNonEmptyString(Get(body, "project_name"))
    /\ IsNumber(Get(body, "allocated_amount")) /\ Get(body, "allocated_amount").n > 0
    /\ HasKey(body, "description") => IsString(Get(body, "description"))
    /\ HasKey(body, "start_date") => Get(body, "start_date").t \in {"date", "null"}
    /\ HasKey(body, "end_date") => Get(body, "end_date").t \in {"date", "null"}

ProjectBodies ==
    { << Member("budget_id", Uuid(b)), Member("project_name", Str("School")),
         Member("allocated_amount", Num(300)) >> \o d :
        b \in 0..Len(db.budgets),
        d \in Optional("start_date", {Null}) }
    \cup { <<Member("project_name", Str("School"))>> }

\* POST /api/projects
CreateProject ==
    /\ Len(db.audit_log) < MaxWrites
    /\ \E body \in ProjectBodies :
        IF ~projectSchema(body)
        THEN /\ response' = Respond("POST /api/projects", 400, [error |-> "validation"])
             /\ UNCHANGED db
             /\ ReleasedAfter(FALSE)
        ELSE IF RowIndex(db.budgets, Get(body, "budget_id")) = 0
        THEN /\ response' = Respond("POST /api/projects", 400,
                                    [error |-> "Budget not found"])
             /\ UNCHANGED db
             /\ ReleasedAfter(FALSE)
        ELSE
        LET projectData == body
            canonicalJson == createCanonicalJson(projectData)
            recordHash == generateHash(projectData)
            newProject ==
                << Member("id", Uuid(Len(db.projects) + 1)),
                   Member("budget_id", Get(projectData, "budget_id")),
                   Member("project_name", Get(projectData, "project_name")),
                   Member("allocated_amount",
                          ToDecimal(Get(projectData, "allocated_amount"))),
                   Member("spent_amount", DecimalStr(0)),
                   Member("description", OrNull(Get(projectData, "description"))),
                   Member("start_date", OrNull(Get(projectData, "start_date"))),
                   Member("end_date", OrNull(Get(projectData, "end_date"))),
                   Member("created_at", Date(1)),
                   Member("updated_at", Date(1)),
                   Member("record_hash", recordHash),
                   Member("verification_status", Str("pending")),
                   Member("canonical_json", Jsonb(canonicalJson)) >>
        IN  IF HashTaken(db.projects, recordHash)
            THEN /\ response' = Respond("POST /api/projects", 500,
                                        [error |-> "Failed to create project"])
                 /\ UNCHANGED db
                 /\ ReleasedAfter(TRUE)
            ELSE /\ db' = [ db EXCEPT
                       !.projects = Append(@, newProject),
                       !.audit_log = Audited(@, "projects", Get(newProject, "id"), "INSERT") ]
                 /\ ReleasedAfter(TRUE)
                 /\ response' = Respond("POST /api/projects", 201,
                                        [id |-> Get(newProject, "id"), hash |-> recordHash])
    /\ UNCHANGED <<engineVars, keyVars>>

vendorSchema(body) ==
    /\ OnlyKeys(body, {"vendor_name", "contact_email", "contact_phone", "address",
                       "tax_id"})
    /\ IsNonEmptyString(Get(body, "vendor_name"))
    /\ \A k \in {"contact_email", "contact_phone", "address", "tax_id"} :
           HasKey(body, k) => IsString(Get(body, k))

VendorBodies ==
    { <<Member("vendor_name", Str("Acme"))>> \o d :
        d \in Optional("tax_id", {Str(""), Str("TX-1")}) }
    \cup { <<Member("tax_id", Str("TX-1"))>> }

\* POST /api/vendors
CreateVendor ==
    /\ Len(db.audit_log) < MaxWrites
    /\ \E body \in VendorBodies :
        IF ~vendorSchema(body)
        THEN /\ response' = Respond("POST /api/vendors", 400, [error |-> "validation"])
             /\ UNCHANGED db
             /\ ReleasedAfter(FALSE)
        ELSE
        LET vendorData == body
            canonicalJson == createCanonicalJson(vendorData)
            recordHash == generateHash(vendorData)
            newVendor ==
                << Member("id", Uuid(Len(db.vendors) + 1)),
                   Member("vendor_name", Get(vendorData, "vendor_name")),
                   Member("contact_email", OrNull(Get(vendorData, "contact_email"))),
                   Member("contact_phone", OrNull(Get(vendorData, "contact_phone"))),
                   Member("address", OrNull(Get(vendorData, "address"))),
                   Member("tax_id", OrNull(Get(vendorData, "tax_id"))),
                   Member("created_at", Date(1)),
                   Member("updated_at", Date(1)),
                   Member("record_hash", recordHash),
                   Member("verification_status", Str("pending")),
                   Member("canonical_json", Jsonb(canonicalJson)) >>
        IN  IF HashTaken(db.vendors, recordHash)
            THEN /\ response' = Respond("POST /api/vendors", 500,
                                        [error |-> "Failed to create vendor"])
                 /\ UNCHANGED db
                 /\ ReleasedAfter(TRUE)
            ELSE /\ db' = [ db EXCEPT
                       !.vendors = Append(@, newVendor),
                       !.audit_log = Audited(@, "vendors", Get(newVendor, "id"), "INSERT") ]
                 /\ ReleasedAfter(TRUE)
                 /\ response' = Respond("POST /api/vendors", 201,
                                        [id |-> Get(newVendor, "id"), hash |-> recordHash])
    /\ UNCHANGED <<engineVars, keyVars>>

transactionSchema(body) ==
    /\ OnlyKeys(body, {"project_id", "vendor_id", "transaction_type", "amount",
                       "transaction_date", "description", "document_url"})
    /\ IsUuid(Get(body, "project_id"))
    /\ HasKey(body, "vendor_id") =>
           (IsUuid(Get(body, "vendor_id")) \/ Get(body, "vendor_id").t = "null")
    /\ Get(body, "transaction_type") \in
           {Str("payment"), Str("expense"), Str("refund"), Str("adjustment")}
    /\ IsNumber(Get(body, "amount")) /\ Get(body, "amount").n # 0
    /\ Get(body, "transaction_date").t = "date"
    /\ HasKey(body, "description") => IsString(Get(body, "description"))
    /\ HasKey(body, "document_url") => IsString(Get(body, "document_url"))

TransactionBodies ==
    { << Member("project_id", Uuid(p)) >> \o v \o
      << Member("transaction_type", Str(ty)), Member("amount", Num(100)),
         Member("transaction_date", Date(3)) >> :
        p \in 0..Len(db.projects),
        v \in Optional("vendor_id", {Uuid(0), Uuid(1)}),
        ty \in {"payment", "expense"} }
    \cup { <<Member("amount", Num(0))>> }

\* POST /api/transactions
CreateTransaction ==
    /\ Len(db.audit_log) < MaxWrites
    /\ \E body \in TransactionBodies :
        IF ~transactionSchema(body)
        THEN /\ response' = Respond("POST /api/transactions", 400,
                                    [error |-> "validation"])
             /\ UNCHANGED db
             /\ ReleasedAfter(FALSE)
        ELSE IF RowIndex(db.projects, Get(body, "project_id")) = 0
        THEN /\ response' = Respond("POST /api/transactions", 400,
                                    [error |-> "Project not found"])
             /\ UNCHANGED db
             /\ ReleasedAfter(FALSE)
        ELSE IF /\ Truthy(Get(body, "vendor_id"))
                /\ RowIndex(db.vendors, Get(body, "vendor_id")) = 0
        THEN /\ response' = Respond("POST /api/transactions", 400,
                                    [error |-> "Vendor not found"])
             /\ UNCHANGED db
             /\ ReleasedAfter(FALSE)
        ELSE
        LET transactionData == body
            documentHash ==
                IF Truthy(Get(transactionData, "document_url"))
                THEN Str("secure token") ELSE Null
            canonicalJson == createCanonicalJson(transactionData)
            recordHash == generateHash(transactionData)
            newTransaction ==
                << Member("id", Uuid(Len(db.transactions) + 1)),
                   Member("project_id", Get(transactionData, "project_id")),
                   Member("vendor_id", OrNull(Get(transactionData, "vendor_id"))),
                   Member("transaction_type", Get(transactionData, "transaction_type")),
                   Member("amount", ToDecimal(Get(transactionData, "amount"))),
                   Member("transaction_date", Get(transactionData, "transaction_date")),
                   Member("description", OrNull(Get(transactionData, "description"))),
                   Member("document_url", OrNull(Get(transactionData, "document_url"))),
                   Member("document_hash", documentHash),
                   Member("created_at", Date(1)),
                   Member("updated_at", Date(1)),
                   Member("record_hash", recordHash),
                   Member("verification_status", Str("pending")),
                   Member("canonical_json", Jsonb(canonicalJson)) >>
            p == RowIndex(db.projects, Get(transactionData, "project_id"))
            isPayment ==
                /\ Get(transactionData, "transaction_type") = Str("payment")
                /\ Get(transactionData, "amount").n > 0
            \* UPDATE projects SET spent_amount = spent_amount + $1
            paidProject ==
                Put(Put(db.projects[p], "spent_amount",
                        DecimalAdd(Get(db.projects[p], "spent_amount"),
                                   Get(transactionData, "amount"))),
                    "updated_at", Date(2))
        IN  IF HashTaken(db.transactions, recordHash)
            THEN /\ response' = Respond("POST /api/transactions", 500,
                                        [error |-> "Failed to create transaction"])
                 /\ UNCHANGED db
                 /\ ReleasedAfter(TRUE)
            ELSE /\ db' = [ db EXCEPT
                       !.transactions = Append(@, newTransaction),
                       !.projects = IF isPayment THEN [@ EXCEPT ![p] = paidProject] ELSE @,
                       !.audit_log =
                           LET inserted == Audited(@, "transactions",
                                                   Get(newTransaction, "id"), "INSERT")
                           IN  IF isPayment
                               THEN AuditedUpdate(inserted, "projects",
                                                  db.projects[p], paidProject)
                               ELSE inserted ]
                 /\ ReleasedAfter(TRUE)
                 /\ response' = Respond("POST /api/transactions", 201,
                                        [id |-> Get(newTransaction, "id"),
                                         hash |-> recordHash])
    /\ UNCHANGED <<engineVars, keyVars>>

\* ------------------------------------------------- routes/verification
validTypes == {"budget", "project", "vendor", "transaction"}

tableMap ==
    [ budget |-> "budgets", project |-> "projects", vendor |-> "vendors",
      transaction |-> "transactions" ]

RECURSIVE OrderBySignedAtDesc(_)
\* ORDER BY signed_at DESC
OrderBySignedAtDesc(rows) ==
    IF rows = {} THEN <<>>
    ELSE LET latest == CHOOSE r \in rows : \A q \in rows : q.signed_at <= r.signed_at
         IN  <<latest>> \o OrderBySignedAtDesc(rows \ {latest})

RECURSIVE OrderByChangedAtDesc(_)
\* ORDER BY changed_at DESC
OrderByChangedAtDesc(rows) ==
    IF rows = {} THEN <<>>
    ELSE LET latest == CHOOSE r \in rows : \A q \in rows : q.changed_at <= r.changed_at
         IN  <<latest>> \o OrderByChangedAtDesc(rows \ {latest})

Limit(seq, n) == SubSeq(seq, 1, IF Len(seq) < n THEN Len(seq) ELSE n)

SeqToSet(seq) == {seq[i] : i \in 1..Len(seq)}

\* the approvals query of the verify route
ApprovalsOf(database, recordId, recordType) ==
    OrderBySignedAtDesc({ a \in SeqToSet(database.approvals) :
                            /\ a.related_record_id = recordId
                            /\ a.related_record_type = recordType })

\* the history query of the verify route
HistoryOf(database, tableName, recordId) ==
    Limit(OrderByChangedAtDesc({ e \in SeqToSet(database.audit_log) :
                                   /\ e.table_name = tableName
                                   /\ e.record_id = recordId }),
          AuditLimit)

\* signatureVerifications.find(sig => sig.signer.name === name)?.isValid || false
hasValidSignature(signatureVerifications, name) ==
    IF \E j \in 1..Len(signatureVerifications) :
           signatureVerifications[j].signer.name = name
    THEN LET first == CHOOSE j \in 1..Len(signatureVerifications) :
                 /\ signatureVerifications[j].signer.name = name
                 /\ \A h \in 1..(j - 1) : signatureVerifications[h].signer.name # name
         IN  signatureVerifications[first].isValid
    ELSE FALSE

\* the value of a singleton: an expression evaluated once, then named
Only(S) == CHOOSE x \in S : TRUE

\* the JSON body of the verify route's 200 response
verificationReport(recordId, recordType, record, approvals, verification, history) ==
    [ recordId |-> recordId,
      recordType |-> recordType,
      record |-> Put(record, "canonical_json", Undefined),
      verification |-> verification,
      approvals |->
          [ i \in 1..Len(approvals) |->
              [ approver |-> [ name |-> approvals[i].approver_name,
                               role |-> approvals[i].approver_role,
                               email |-> approvals[i].approver_email ],
                signedAt |-> approvals[i].signed_at,
                status |-> approvals[i].approval_status,
                hasValidSignature |->
                    hasValidSignature(verification.signatureVerifications,
                                      approvals[i].approver_name) ] ],
      auditTrail |-> history,
      verificationSummary |->
          [ overallStatus |-> verification.verificationStatus,
            hashIntegrity |-> verification.hashVerification.isValid,
            signatureCount |-> Len(approvals),
            validSignatures |->
                Cardinality({ j \in 1..Len(verification.signatureVerifications) :
                                verification.signatureVerifications[j].isValid }) ] ]

\* GET /api/verify/:recordType/:recordId: status and JSON body of the response
verifyRoute(database, recordType, recordId) ==
    IF recordType \notin validTypes
    THEN [status |-> 400, body |-> [error |-> "Invalid record type"]]
    ELSE IF ~IsUuid(recordId)
    THEN \* the query is rejected (invalid input syntax for type uuid); caught
         [status |-> 500, body |-> [error |-> "Verification failed"]]
    ELSE IF RowIndex(database[tableMap[recordType]], recordId) = 0
    THEN [status |-> 404, body |-> [error |-> "Record not found"]]
    ELSE
    LET tableName == tableMap[recordType]
        Report(record, approvals) ==
            Only({ verificationReport(recordId, recordType, record, approvals,
                                      verification, history) :
                     verification \in
                         {completeVerification(cryptoUtils, record,
                                               Get(record, "record_hash"), approvals)},
                     history \in {HistoryOf(database, tableName, recordId)} })
    IN  [ status |-> 200,
          body |->
            Only({ Report(record, approvals) :
                     record \in {database[tableName][RowIndex(database[tableName],
                                                              recordId)]},
                     approvals \in {ApprovalsOf(database, recordId, recordType)} }) ]

\* ids a request can name for a table: those of its rows and one of no row
IdsOf(table) == {Uuid(n) : n \in 0..Len(table)}

\* the verify route, storing the status it computed in the record's row
VerifyRecordCachesStatus ==
    /\ \E recordType \in validTypes :
       \E recordId \in IdsOf(db[tableMap[recordType]]) :
       \E r \in {verifyRoute(db, recordType, recordId)} :
           /\ response' = Respond("GET /api/verify/:recordType/:recordId",
                                  r.status, r.body)
           /\ db' = IF r.status = 200
                    THEN LET tableName == tableMap[recordType]
                             i == RowIndex(db[tableName], recordId)
                         IN  [db EXCEPT ![tableName][i] =
                                 Put(@, "verification_status",
                                     Str(r.body.verificationSummary.overallStatus))]
                    ELSE db
    /\ UNCHANGED <<clients, engineVars, keyVars>>

VerifyRecord ==
    /\ \E recordType \in validTypes :
       \E recordId \in IdsOf(db[tableMap[recordType]]) :
       \E r \in {verifyRoute(db, recordType, recordId)} :
           response' = Respond("GET /api/verify/:recordType/:recordId",
                               r.status, r.body)
    /\ UNCHANGED <<db, clients, engineVars, keyVars>>

Init == NoEngineCall /\ NoKeyFiles /\ EmptyDb

Next ==
    \/ CreateBudget
    \/ UpdateBudget
    \/ CreateProject
    \/ CreateVendor
    \/ CreateTransaction
    \/ VerifyRecord

Spec == Init /\ [][Next]_vars

\* ------------------------------------- routes/verification: batch, certificate
MaxBatch == 2           \* items of the batch requests the model follows
BatchCap == 50          \* records.length > 50 is refused
CertificateChanges == 5 \* auditTrail.slice(0, 5)

\* what the single-verification request of one batch item resolves to:
\* the parsed JSON body, or a throw when the request itself fails
fetchSingle(database, item, failed) ==
    IF failed THEN Throw("fetch failed")
    ELSE verifyRoute(database, item.recordType, item.recordId).body

\* the entry pushed for one item of the batch
batchEntry(database, item, failed) ==
    LET Entry(result) ==
            IF IsThrow(result)
            THEN [ recordId |-> item.recordId, recordType |-> item.recordType,
                   status |-> "error", verified |-> FALSE,
                   error |-> Str(result.throw) ]
            ELSE [ recordId |-> item.recordId, recordType |-> item.recordType,
                   status |-> IF "verificationSummary" \in DOMAIN result
                              THEN result.verificationSummary.overallStatus
                              ELSE "error",
                   verified |-> IF "verification" \in DOMAIN result
                                THEN result.verification.overallValid
                                ELSE FALSE,
                   error |-> IF "error" \in DOMAIN result
                             THEN Str(result.error) ELSE Null ]
    IN  Only({ Entry(result) : result \in {fetchSingle(database, item, failed)} })

RECURSIVE batchResultsStopAtFailure(_, _, _)
batchResultsStopAtFailure(database, records, failures) ==
    IF records = <<>> THEN <<>>
    ELSE LET entry == batchEntry(database, Head(records), 1 \in failures)
         IN  IF entry.status = "error" THEN <<entry>>
             ELSE <<entry>> \o batchResultsStopAtFailure(database, Tail(records),
                                                         {i - 1 : i \in failures \ {1}})

\* verificationResults after the loop over the records
batchResults(database, records, failures) ==
    [ i \in 1..Len(records) |-> batchEntry(database, records[i], i \in failures) ]

\* POST /api/verify/batch with the cap compared by >=
batchRouteCapOffByOne(database, body, failures) ==
    IF ~body.isArray \/ Len(body.records) = 0
    THEN [ status |-> 400, body |-> [error |-> "Records array is required"],
           fetched |-> <<>> ]
    ELSE IF Len(body.records) >= BatchCap
    THEN [ status |-> 400,
           body |-> [error |-> "Maximum 50 records allowed per batch"],
           fetched |-> <<>> ]
    ELSE [ status |-> 200,
           body |-> [results |-> batchResults(database, body.records, failures)],
           fetched |-> body.records ]

\* POST /api/verify/batch: status and JSON body of the response, and the
\* items whose single verification was requested on the way
batchRoute(database, body, failures) ==
    IF ~body.isArray \/ Len(body.records) = 0
    THEN [ status |-> 400, body |-> [error |-> "Records array is required"],
           fetched |-> <<>> ]
    ELSE IF Len(body.records) > BatchCap
    THEN [ status |-> 400,
           body |-> [error |-> "Maximum 50 records allowed per batch"],
           fetched |-> <<>> ]
    ELSE
    LET Count(rs, statuses) ==
            Cardinality({i \in 1..Len(rs) : rs[i].status \in statuses})
        Answer(verificationResults) ==
            [ status |-> 200,
              body |->
                [ results |-> verificationResults,
                  summary |->
                    [ totalRecords |-> Len(body.records),
                      verified |-> Cardinality({ i \in 1..Len(verificationResults) :
                                                  verificationResults[i].verified }),
                      pending |-> Count(verificationResults, {"pending"}),
                      suspicious |-> Count(verificationResults, {"suspicious"}),
                      errors |-> Count(verificationResults, {"error"}) ] ],
              fetched |->
                [ i \in 1..Len(verificationResults) |->
                    [ recordType |-> verificationResults[i].recordType,
                      recordId |-> verificationResults[i].recordId ] ] ]
    IN  Only({ Answer(verificationResults) :
                 verificationResults \in
                     {batchResults(database, body.records, failures)} })

\* the interpolated values of the certificate's title
getRecordTitle(record, recordType) ==
    IF recordType = "budget" THEN <<Get(record, "department"), Get(record, "year")>>
    ELSE IF recordType = "project" THEN <<Get(record, "project_name")>>
    ELSE IF recordType = "vendor" THEN <<Get(record, "vendor_name")>>
    ELSE IF recordType = "transaction"
    THEN <<Get(record, "amount"), Get(record, "description")>>
    ELSE <<Str("Unknown Record")>>

\* the certificate built from the verify route's JSON body; certificateId and
\* the timestamps are fresh values and are left out
certificate(verificationData, recordType) ==
    [ subject |->
        [ recordId |-> verificationData.recordId,
          recordType |-> verificationData.recordType,
          title |-> getRecordTitle(verificationData.record, recordType) ],
      verification |->
        [ status |-> verificationData.verificationSummary.overallStatus,
          integrity |->
            [ hashVerified |-> verificationData.verificationSummary.hashIntegrity,
              originalHash |-> verificationData.verification.hashVerification.storedHash,
              computedHash |-> verificationData.verification.hashVerification.computedHash,
              hashMatch |-> verificationData.verification.hashVerification.isValid ],
          authenticity |->
            [ totalSignatures |-> verificationData.verificationSummary.signatureCount,
              validSignatures |-> verificationData.verificationSummary.validSignatures,
              signers |->
                  [ i \in 1..Len(verificationData.approvals) |->
                      [ name |-> verificationData.approvals[i].approver.name,
                        role |-> verificationData.approvals[i].approver.role,
                        signedAt |-> verificationData.approvals[i].signedAt,
                        valid |-> verificationData.approvals[i].hasValidSignature ] ] ],
          auditTrail |->
            [ totalChanges |-> Len(verificationData.auditTrail),
              lastModified |->
                  IF Len(verificationData.auditTrail) > 0
                  THEN verificationData.auditTrail[1].changed_at
                  ELSE Get(verificationData.record, "created_at").n,
              changes |-> Limit(verificationData.auditTrail, CertificateChanges) ] ],
      issuer |-> [publicKey |-> cryptoUtils.publicKey] ]

\* GET /api/verify/:recordType/:recordId/certificate: status and JSON body
certificateRoute(database, recordType, recordId, failed) ==
    IF failed
    THEN [ status |-> 500,
           body |-> [error |-> "Failed to generate verification certificate"] ]
    ELSE
    LET Issue(verificationResponse) ==
            IF verificationResponse.status # 200 THEN verificationResponse
            ELSE [ status |-> 200,
                   body |-> certificate(verificationResponse.body, recordType) ]
    IN  Only({ Issue(verificationResponse) :
                 verificationResponse \in {verifyRoute(database, recordType, recordId)} })

\* a database as the schema's seed and the routes leave it: two budgets, the
\* first with a stored hash that matches its fields or not and with any
\* approvals on file, all of them written at different times
SeedBudget(id, department) ==
    BudgetRow(id, Str(department), Num(2024), DecimalStr(500), Null, Null, "pending")

WithHash(record, matching) ==
    Put(record, "record_hash",
        IF matching THEN generateHash(record) ELSE Str("a1b2c3"))

\* approvals on file for a record: by one approver with an intact and with an
\* altered signature, and by another approver
SeedApprovals(record) ==
    LET d == Sha256(createCanonicalJson(record))
    IN  { ApprovalRow("A", SignatureB64(d, 1, FALSE), PublicPem(1)),
          ApprovalRow("A", SignatureB64(d, 1, TRUE), PublicPem(1)),
          ApprovalRow("B", SignatureB64(d, 2, FALSE), PublicPem(2)) }

SignedInOrder(rows) == [i \in 1..Len(rows) |-> [rows[i] EXCEPT !.signed_at = i]]

\* sequences of up to n different members of S
DistinctSeqsUpTo(S, n) ==
    { q \in SeqsUpTo(S, n) : \A i, j \in 1..Len(q) : i # j => q[i] # q[j] }

SeededDb ==
    /\ \E matching \in BOOLEAN :
       \E rows \in DistinctSeqsUpTo(SeedApprovals(SeedBudget(Uuid(1), "Education")),
                                    MaxSigs) :
           db = [ budgets |-> << WithHash(SeedBudget(Uuid(1), "Education"), matching),
                                 WithHash(SeedBudget(Uuid(2), "Health"), TRUE) >>,
                  projects |-> <<>>, vendors |-> <<>>, transactions |-> <<>>,
                  approvals |-> SignedInOrder(rows),
                  audit_log |-> Audited(Audited(<<>>, "budgets", Uuid(1), "INSERT"),
                                        "budgets", Uuid(2), "INSERT") ]
    /\ response = [route |-> "none"]
    /\ IdlePool

\* the items a batch request can name: the two budgets and a budget that
\* does not exist
BatchItems ==
    { [recordType |-> "budget", recordId |-> Uuid(1)],
      [recordType |-> "budget", recordId |-> Uuid(2)],
      [recordType |-> "budget", recordId |-> Uuid(0)] }

\* a list of n copies of one item
Repeated(item, n) == [i \in 1..n |-> item]

\* request bodies: short lists, the longest list allowed, one item more, and
\* bodies whose records member is absent or is not a list
BatchBodies ==
    { [given |-> TRUE, isArray |-> TRUE, records |-> r] :
          r \in SeqsUpTo(BatchItems, MaxBatch) }
        \cup { [given |-> FALSE, isArray |-> FALSE, records |-> <<>>],
               [given |-> TRUE, isArray |-> FALSE, records |-> <<>>],
               [ given |-> TRUE, isArray |-> TRUE,
                 records |-> Repeated([recordType |-> "budget",
                                       recordId |-> Uuid(1)], BatchCap) ],
               [ given |-> TRUE, isArray |-> TRUE,
                 records |-> Repeated([recordType |-> "budget",
                                       recordId |-> Uuid(1)], BatchCap + 1) ] }

\* the single-verification requests that fail: none, or one of those the
\* loop makes over a short list
FailureChoices(body) ==
    IF body.isArray /\ Len(body.records) <= MaxBatch
    THEN {{}} \cup {{i} : i \in 1..Len(body.records)}
    ELSE {{}}

BatchVerify ==
    /\ \E body \in BatchBodies :
       \E failures \in FailureChoices(body) :
       \E r \in {batchRoute(db, body, failures)} :
           response' = [ route |-> "POST /api/verify/batch",
                         status |-> r.status, body |-> r.body,
                         fetched |-> r.fetched,
                         request |-> [body |-> body, failures |-> failures] ]
    /\ UNCHANGED <<db, clients, engineVars, keyVars>>

Certificate ==
    /\ \E recordType \in validTypes :
       \E recordId \in IdsOf(db[tableMap[recordType]]) :
       \E failed \in BOOLEAN :
       \E r \in {certificateRoute(db, recordType, recordId, failed)} :
           response' = Respond("GET /api/verify/:recordType/:recordId/certificate",
                               r.status, r.body)
    /\ UNCHANGED <<db, clients, engineVars, keyVars>>

InitRead == NoEngineCall /\ NoKeyFiles /\ SeededDb

NextRead ==
    \/ VerifyRecord
    \/ BatchVerify
    \/ Certificate

SpecRead == InitRead /\ [][NextRead]_vars

\* ------------------------------------ writes to the sample data
\* a row of INSERT INTO projects of the sample data
SampleProject(id, budget_id, status) ==
    << Member("id", id),
       Member("budget_id", budget_id),
       Member("project_name", Str("New School Construction")),
       Member("allocated_amount", DecimalStr(2000)),
       Member("spent_amount", DecimalStr(1500)),
       Member("description", Str("Construction of 3 new primary schools")),
       Member("start_date", Date(1)),
       Member("end_date", Date(2)),
       Member("created_at", Date(1)),
       Member("updated_at", Date(1)),
       Member("record_hash", Str("d4e5f6")),
       Member("verification_status", Str(status)),
       Member("canonical_json", Jsonb(<<>>)) >>

\* the database after the sample data is loaded: a budget and a project of
\* it, each marked 'verified' or 'pending' as the sample rows are
InitSample ==
    /\ NoEngineCall
    /\ NoKeyFiles
    /\ \E budgetStatus \in {"verified", "pending"} :
       \E projectStatus \in {"verified", "pending"} :
           db = [ budgets |-> << BudgetRow(Uuid(1), Str("Education"), Num(2024),
                                           DecimalStr(500), Str("Annual education budget"),
                                           Str("a1b2c3"), budgetStatus) >>,
                  projects |-> << SampleProject(Uuid(1), Uuid(1), projectStatus) >>,
                  vendors |-> <<>>, transactions |-> <<>>, approvals |-> <<>>,
                  audit_log |-> Audited(<<>>, "budgets", Uuid(1), "INSERT") ]
    /\ response = [route |-> "none"]
    /\ IdlePool

NextSample ==
    \/ UpdateBudget
    \/ CreateTransaction
    \/ VerifyRecord

SpecSample == InitSample /\ [][NextSample]_vars

\* ------------------------------------ PUT /api/budgets/:id, statement by
\* statement, for handlers that run at the same time
Idle == [pc |-> "idle", inTransaction |-> FALSE]

\* handlers that hold a client
InFlight == {c \in Clients : clients[c].pc # "idle"}

\* pool.connect() and BEGIN, for a request with this id and body
UpdateBegin(c) ==
    /\ InFlight # Clients
    /\ c = Connected
    /\ Len(db.audit_log) + Cardinality(InFlight) < MaxWrites
    /\ \E id \in {Uuid(n) : n \in 0..Len(db.budgets)} :
       \E value \in UpdateBodies :
           clients' = [clients EXCEPT ![c] =
                          [pc |-> "begun", inTransaction |-> TRUE,
                           id |-> id, value |-> value]]
    /\ UNCHANGED <<db, response, engineVars, keyVars>>

\* validation, SELECT * FROM budgets WHERE id = $1, the merge and its hash
UpdateSelect(c) ==
    /\ clients[c].pc = "begun"
    /\ LET id == clients[c].id
           value == clients[c].value
           i == RowIndex(db.budgets, id)
       IN  IF ~updateBudgetSchema(value)
           THEN /\ response' = Respond("PUT /api/budgets/:id", 400,
                                       [error |-> "validation"])
                /\ clients' = [clients EXCEPT ![c] = [Idle EXCEPT !.inTransaction = TRUE]]
           ELSE IF i = 0
           THEN /\ response' = Respond("PUT /api/budgets/:id", 404,
                                       [error |-> "Budget not found"])
                /\ clients' = [clients EXCEPT ![c] = [Idle EXCEPT !.inTransaction = TRUE]]
           ELSE LET existingBudget == db.budgets[i]
                    updatedData == Spread(existingBudget, value)
                IN  /\ clients' = [clients EXCEPT ![c] =
                           [pc |-> "selected", inTransaction |-> TRUE,
                            id |-> id, value |-> value,
                            canonicalJson |-> createCanonicalJson(updatedData),
                            recordHash |-> generateHash(updatedData)]]
                    /\ UNCHANGED response
    /\ UNCHANGED <<db, engineVars, keyVars>>

\* UPDATE budgets SET ... WHERE id = $n RETURNING *: waits while another
\* transaction holds the row, then sets the columns on the row as committed
UpdateWrite(c) ==
    /\ clients[c].pc = "selected"
    /\ \A d \in Clients \ {c} :
           clients[d].pc = "updated" => clients[d].id # clients[c].id
    /\ LET i == RowIndex(db.budgets, clients[c].id)
           updatedBudget ==
               Put(Put(Put(Put(SetColumns(db.budgets[i], clients[c].value),
                   "record_hash", clients[c].recordHash),
                   "canonical_json", Jsonb(clients[c].canonicalJson)),
                   "verification_status", Str("pending")),
                   "updated_at", Date(2))
       IN  IF \E j \in 1..Len(db.budgets) :
                  j # i /\ Get(db.budgets[j], "record_hash") = clients[c].recordHash
           THEN \* unique violation: caught, ROLLBACK, release
                /\ response' = Respond("PUT /api/budgets/:id", 500,
                                       [error |-> "Failed to update budget"])
                /\ clients' = [clients EXCEPT ![c] = Idle]
           ELSE /\ clients' = [clients EXCEPT ![c] =
                       [pc |-> "updated", inTransaction |-> TRUE,
                        id |-> clients[c].id, value |-> clients[c].value,
                        recordHash |-> clients[c].recordHash,
                        updatedBudget |-> updatedBudget]]
                /\ UNCHANGED response
    /\ UNCHANGED <<db, engineVars, keyVars>>

\* COMMIT, the response and client.release()
UpdateCommit(c) ==
    /\ clients[c].pc = "updated"
    /\ LET i == RowIndex(db.budgets, clients[c].id)
       IN  db' = [ db EXCEPT
                     !.budgets[i] = clients[c].updatedBudget,
                     !.audit_log = AuditedUpdate(@, "budgets", db.budgets[i],
                                                 clients[c].updatedBudget) ]
    /\ response' = Respond("PUT /api/budgets/:id", 200,
                           [id |-> clients[c].id, hash |-> clients[c].recordHash])
    /\ clients' = [clients EXCEPT ![c] = Idle]
    /\ UNCHANGED <<engineVars, keyVars>>

\* one budget as the SELECT returns it, its record_hash that of its fields
InitRace ==
    /\ NoEngineCall
    /\ NoKeyFiles
    /\ db = [ budgets |-> << WithHash(SeedBudget(Uuid(1), "Education"), TRUE) >>,
              projects |-> <<>>, vendors |-> <<>>, transactions |-> <<>>,
              approvals |-> <<>>,
              audit_log |-> Audited(<<>>, "budgets", Uuid(1), "INSERT") ]
    /\ response = [route |-> "none"]
    /\ IdlePool

NextRace ==
    \E c \in Clients :
        \/ UpdateBegin(c)
        \/ UpdateSelect(c)
        \/ UpdateWrite(c)
        \/ UpdateCommit(c)

SpecRace == InitRace /\ [][NextRace]_vars

\* ------------------------------------ certificates of records with a history
MaxHistory == 12

RECURSIVE HistoryOfLength(_, _)
\* the audit_log after the row's INSERT and n - 1 UPDATEs of it; empty for a
\* row loaded before the audit triggers were created
HistoryOfLength(row, n) ==
    IF n = 0 THEN <<>>
    ELSE IF n = 1 THEN Audited(<<>>, "budgets", Get(row, "id"), "INSERT")
    ELSE AuditedUpdate(HistoryOfLength(row, n - 1), "budgets", row, row)

\* one budget, its stored hash matching or not, with a history of any length
InitHistory ==
    /\ NoEngineCall
    /\ NoKeyFiles
    /\ \E matching \in BOOLEAN : \E n \in 0..MaxHistory :
       \E row \in {WithHash(SeedBudget(Uuid(1), "Education"), matching)} :
           db = [ budgets |-> <<row>>,
                  projects |-> <<>>, vendors |-> <<>>, transactions |-> <<>>,
                  approvals |-> <<>>,
                  audit_log |-> HistoryOfLength(row, n) ]
    /\ response = [route |-> "none"]
    /\ IdlePool

NextHistory ==
    \/ VerifyRecord
    \/ Certificate

SpecHistory == InitHistory /\ [][NextHistory]_vars

\* --------------------------------------------- properties of the engine
SignatureVerifies(sig) ==
    verifySignature(inp.self, inp.record, sig.signature, sig.public_key).isValid

HashMatches == generateHash(inp.record) = inp.storedHash

\* C1: whenever the hash recomputed from the record differs from the stored
\* hash, completeVerification returns 'suspicious', whatever the signatures are
C1_MismatchIsSuspicious ==
    (ret.op = "completeVerification" /\ ~HashMatches)
        => ret.result.verificationStatus = "suspicious"

\* a mismatching hash together with approvals that all verify
C1_Witness ==
    /\ ret.op = "completeVerification"
    /\ ~HashMatches
    /\ Len(inp.signatures) > 0
    /\ \A i \in 1..Len(inp.signatures) : SignatureVerifies(inp.signatures[i])
    /\ ret.result.verificationStatus = "suspicious"

\* C4: the status is 'verified' if and only if the hash matches, there is at
\* least one signature, and every signature verifies
C4_VerifiedIff ==
    ret.op = "completeVerification" =>
        ( ret.result.verificationStatus = "verified"
          <=> /\ HashMatches
              /\ Len(inp.signatures) > 0
              /\ \A i \in 1..Len(inp.signatures) :
                     SignatureVerifies(inp.signatures[i]) )

C4_Witness ==
    /\ ret.op = "completeVerification"
    /\ ret.result.verificationStatus = "verified"
    /\ Len(inp.signatures) = 2
    /\ inp.signatures[1] # inp.signatures[2]

\* C5: the status is 'pending' exactly when the hash matches and the
\* signature list is empty
C5_PendingIff ==
    ret.op = "completeVerification" =>
        ( ret.result.verificationStatus = "pending"
          <=> (HashMatches /\ Len(inp.signatures) = 0) )

C5_Witness ==
    /\ ret.op = "completeVerification"
    /\ ret.result.verificationStatus = "pending"
    /\ HashMatches
    /\ inp.signatures = <<>>

\* the record differs from the signed one in a field outside the exclusion set
ChangedOutsideExclusion(record) ==
    \E k \in {record[i].k : i \in 1..Len(record)} \ excludeFields :
        Get(record, k) # Get(inp.record, k)

\* C7: a signature made by signRecord over R with pair K verifies against R
\* and K's public key; it does not verify once the signature is altered, or
\* another pair's public key is supplied, or R is changed in a non-excluded
\* field
C7_SignVerifyRoundTrip ==
    ret.op = "verifySignature" =>
        /\ ( /\ ret.signature = ret.signed.signature
             /\ ret.publicKey = ret.signed.publicKey
             /\ ret.record = inp.record ) => ret.result.isValid
        /\ ret.signature # ret.signed.signature => ~ret.result.isValid
        /\ (\E k \in KeyPairs \ {ret.signer} : ret.publicKey = PublicPem(k))
               => ~ret.result.isValid
        /\ ChangedOutsideExclusion(ret.record) => ~ret.result.isValid

C7_Witness ==
    /\ ret.op = "verifySignature"
    /\ ret.signature = ret.signed.signature
    /\ ret.publicKey = ret.signed.publicKey
    /\ ret.record = inp.record
    /\ ret.signer # inp.self.publicKey.pair
    /\ ret.result.isValid

\* C8: with a missing, empty or malformed public key, or a signature that
\* cannot be decoded, verifySignature returns isValid = false and an error
C8_FailsClosed ==
    ( /\ ret.op = "verifySignature"
      /\ \/ ret.publicKey \in {Null, Str(""), Str("not a pem")}
         \/ "b64" \notin DOMAIN ret.signature )
        => (~ret.result.isValid /\ "error" \in DOMAIN ret.result)

\* ------------------------------------------ properties of loadKeys
AllLoaded == \A p \in Procs : At(p, "done")

\* C6: after concurrent first-time initializations the two key files hold the
\* halves of one pair, and every initializer holds that pair
C6_OneKeyPairWins ==
    AllLoaded =>
        /\ IsPrivatePem(files.private) /\ IsPublicPem(files.public)
        /\ files.private.pair = files.public.pair
        /\ \A p \in Procs : /\ loader[p].privateKey = files.private
                            /\ loader[p].publicKey = files.public

\* ------------------------------------------- properties of the routes
Tables == {"budgets", "projects", "vendors", "transactions"}

VerifyAnswered == response.route = "GET /api/verify/:recordType/:recordId"

\* the record has been written by its create operation only
NeverUpdated(tableName, recordId) ==
    \A e \in SeqToSet(db.audit_log) :
        (e.table_name = tableName /\ e.record_id = recordId) => e.action = "INSERT"

\* C2: the verify route reports a hash match for every record that was
\* created through its create operation and not modified afterwards
C2_CreatedRecordVerifies ==
    ( /\ VerifyAnswered
      /\ response.status = 200
      /\ NeverUpdated(tableMap[response.body.recordType], response.body.recordId) )
        => response.body.verification.hashVerification.isValid

\* the two rows differ in a field outside the exclusion set
DiffersOutsideExclusion(old, new) ==
    \E k \in SeqToSet(ObjectKeys(old)) \ excludeFields : Get(old, k) # Get(new, k)

AmountColumns == {"total_amount", "allocated_amount", "spent_amount", "amount"}

\* the row with each amount written as the decimal string or as the number
FieldValueForms(row) ==
    { [ i \in 1..Len(row) |->
          IF row[i].k \in asNumber /\ row[i].v.t = "string"
          THEN Member(row[i].k, Num(row[i].v.n)) ELSE row[i] ] :
        asNumber \in SUBSET AmountColumns }

\* C3: a step that changes a non-excluded field of a stored record also
\* stores a record_hash computed from the record's new field values
C3_MutationRewritesHash ==
    [][ \A t \in Tables : \A i \in 1..Len(db[t]) :
            DiffersOutsideExclusion(db[t][i], db'[t][i]) =>
                Get(db'[t][i], "record_hash")
                    \in {generateHash(form) : form \in FieldValueForms(db'[t][i])} ]_vars

BatchAnswered == response.route = "POST /api/verify/batch"

\* the item names a record that is stored
NamesStoredRecord(item) ==
    /\ item.recordType \in validTypes
    /\ RowIndex(db[tableMap[item.recordType]], item.recordId) # 0

\* the status the single-record verification returns for the item
SingleStatus(item) ==
    verifyRoute(db, item.recordType, item.recordId).body.verificationSummary.overallStatus

\* C9: a batch of 1 to 50 items is answered with one result per item, in the
\* order of the items; an item whose record does not exist or whose
\* evaluation fails has status 'error', every other item has the status the
\* single-record verification returns for it
C9_BatchIsolatesFailures ==
    ( /\ BatchAnswered
      /\ response.request.body.isArray
      /\ Len(response.request.body.records) \in 1..BatchCap )
        => LET records == response.request.body.records
               results == response.body.results
           IN  /\ response.status = 200
               /\ Len(results) = Len(records)
               /\ \A i \in 1..Len(records) :
                    /\ results[i].recordId = records[i].recordId
                    /\ results[i].recordType = records[i].recordType
                    /\ results[i].status =
                         IF i \in response.request.failures
                            \/ ~NamesStoredRecord(records[i])
                         THEN "error"
                         ELSE SingleStatus(records[i])

\* a batch whose first item fails and whose second item is a stored record
C9_Witness ==
    /\ BatchAnswered
    /\ response.status = 200
    /\ Len(response.request.body.records) = 2
    /\ \/ 1 \in response.request.failures
       \/ ~NamesStoredRecord(response.request.body.records[1])
    /\ response.body.results[1].status = "error"
    /\ NamesStoredRecord(response.request.body.records[2])
    /\ 2 \notin response.request.failures
    /\ response.body.results[2].status \in {"verified", "pending", "suspicious"}

CertificateIssued ==
    /\ response.route = "GET /api/verify/:recordType/:recordId/certificate"
    /\ response.status = 200

\* C10: the certificate carries the stored hash, the computed hash and the
\* hash-match flag of the verification result it is built from, and signer i
\* of the certificate has the validity of signature i of that result
C10_CertificateReproducesResult ==
    CertificateIssued =>
        LET subject == response.body.subject
            result == verifyRoute(db, subject.recordType, subject.recordId).body.verification
            integrity == response.body.verification.integrity
            signers == response.body.verification.authenticity.signers
        IN  /\ integrity.originalHash = result.hashVerification.storedHash
            /\ integrity.computedHash = result.hashVerification.computedHash
            /\ integrity.hashMatch = result.hashVerification.isValid
            /\ Len(signers) = Len(result.signatureVerifications)
            /\ \A i \in 1..Len(signers) :
                 signers[i].valid = result.signatureVerifications[i].isValid

\* ------------------------------------ properties of the canonical form
Canonicalized == ret.op \in {"createCanonicalJson", "generateHash"}

RECURSIVE AsMap(_)
\* a value with its nested members as a set: what it holds, whatever the
\* order its members were inserted in
AsMap(v) ==
    IF v.t = "object" /\ "members" \in DOMAIN v
    THEN [ t |-> "object",
           members |-> { Member(v.members[i].k, AsMap(v.members[i].v)) :
                           i \in 1..Len(v.members) } ]
    ELSE v

Pairs(record) == { Member(record[i].k, AsMap(record[i].v)) : i \in 1..Len(record) }

\* C11: two field maps with the same (key, value) pairs, nested values
\* included, have the same canonical JSON and the same hash, whatever the
\* insertion order of their members
C11_OrderIndependent ==
    (Canonicalized /\ Pairs(inp.a) = Pairs(inp.b)) => ret.a = ret.b

FieldNames(record) == {record[i].k : i \in 1..Len(record)}

\* the field maps hold values of the supported kinds only
Supported(record) ==
    /\ \A i \in 1..Len(record) : record[i].v.t \notin {"function", "buffer"}
    /\ \A i \in 1..Len(record) :
         (record[i].v.t = "object" /\ "members" \in DOMAIN record[i].v) =>
             \A j \in 1..Len(record[i].v.members) :
                 record[i].v.members[j].v.t \notin {"function", "buffer"}

\* the two field maps hold different values in a field outside the exclusion set
\* a number and the decimal string of equal value are one amount
AmountValue(v) == IF v.t = "number" THEN DecimalStr(v.n) ELSE v

DifferOutsideExclusion ==
    \E k \in (FieldNames(inp.a) \cup FieldNames(inp.b)) \ excludeFields :
        AsMap(AmountValue(Get(inp.a, k))) # AsMap(AmountValue(Get(inp.b, k)))

\* the two field maps are the same but for the values of excluded fields
DifferInsideExclusionOnly ==
    /\ ObjectKeys(inp.a) = ObjectKeys(inp.b)
    /\ \A k \in FieldNames(inp.a) \ excludeFields : Get(inp.a, k) = Get(inp.b, k)

\* C12: two records that differ in the value of a field outside the exclusion
\* set have different canonical JSON and different hashes; two records that
\* differ only in excluded fields have the same canonical JSON and hash
C12_ExclusionSetDecides ==
    (Canonicalized /\ Supported(inp.a) /\ Supported(inp.b)) =>
        /\ DifferOutsideExclusion => ret.a # ret.b
        /\ DifferInsideExclusionOnly => ret.a = ret.b

\* a changed amount, hashed
C12_Witness ==
    /\ ret.op = "generateHash"
    /\ Get(inp.a, "amount") # Get(inp.b, "amount")
    /\ DifferOutsideExclusion
    /\ ret.a # ret.b

\* ------------------------------- properties of loadKeys on restart
\* C13: a key file that exists when loadKeys starts keeps its content, and
\* when both files exist every instance holds what the files hold
C13_ExistingFilesKept ==
    /\ inp.files.private # Absent => files.private = inp.files.private
    /\ inp.files.public # Absent => files.public = inp.files.public
    /\ (inp.files.private # Absent /\ inp.files.public # Absent) =>
         \A p \in Procs : At(p, "done") =>
             /\ loader[p].privateKey = files.private
             /\ loader[p].publicKey = files.public

\* the two values are the PEM halves of one key pair
ValidPair(privateKey, publicKey) ==
    /\ IsPrivatePem(privateKey)
    /\ IsPublicPem(publicKey)
    /\ privateKey.pair = publicKey.pair

\* both key files were present at the start and did not hold a key pair
CorruptAtStart ==
    /\ inp.files.private # Absent
    /\ inp.files.public # Absent
    /\ ~ValidPair(inp.files.private, inp.files.public)

\* C20: with corrupt key files no construction completes, so that no
\* instance exists whose keys fail only when it signs
C20_CorruptKeysFailStartup ==
    CorruptAtStart =>
        /\ \A p \in Procs : ~At(p, "done")
        /\ ret.op # "signRecord"

\* ------------------------------ properties of updates and signatures
\* an update of the budget changed a field outside the exclusion set
ContentUpdated(recordId) ==
    \E e \in SeqToSet(db.audit_log) :
        /\ e.table_name = "budgets"
        /\ e.record_id = recordId
        /\ e.action = "UPDATE"
        /\ \E k \in SeqToSet(ObjectKeys(e.old_values)) \ excludeFields :
               Get(e.old_values, k) # Get(e.new_values, k)

\* C14: once an update has changed a non-excluded field of a signed budget,
\* no verification of it returns 'verified' on the signatures it had before,
\* and the budget still has exactly the approval made when it was created
C14_UpdateNeedsFreshApproval ==
    /\ ( /\ VerifyAnswered
         /\ response.status = 200
         /\ response.body.recordType = "budget"
         /\ ContentUpdated(response.body.recordId) )
           => response.body.verification.verificationStatus # "verified"
    /\ \A i \in 1..Len(db.budgets) :
         Len(ApprovalsOf(db, Get(db.budgets[i], "id"), "budget")) = 1

\* C15: the signature stored when a budget is created was made over the
\* digest that the budget's record_hash renders
C15_SignatureOverStoredHash ==
    \A i \in 1..Len(db.budgets) : \A j \in 1..Len(db.approvals) :
        ( /\ db.approvals[j].related_record_type = "budget"
          /\ db.approvals[j].related_record_id = Get(db.budgets[i], "id")
          /\ NeverUpdated("budgets", Get(db.budgets[i], "id")) )
            => Hex(db.approvals[j].signature.b64.digest)
                   = Get(db.budgets[i], "record_hash")

\* ------------------------------ properties of the engine, continued
CachedStatuses == {"pending", "verified", "suspicious"}

\* the verification of the record as it would be with another cached status
WithCachedStatus(status) ==
    completeVerification(inp.self,
                         Put(inp.record, "verification_status", Str(status)),
                         inp.storedHash, inp.signatures)

\* C16: the status, the hash-match flag and the validity of each signature
\* that completeVerification returns are the same whatever the record's
\* cached verification_status is
C16_CachedStatusIgnored ==
    ret.op = "completeVerification" =>
        \A status \in CachedStatuses :
            LET other == WithCachedStatus(status)
            IN  /\ other.verificationStatus = ret.result.verificationStatus
                /\ other.hashVerification.isValid = ret.result.hashVerification.isValid
                /\ \A i \in 1..Len(inp.signatures) :
                     other.signatureVerifications[i].isValid
                         = ret.result.signatureVerifications[i].isValid

\* a record cached as 'verified' that verifies as 'suspicious'
C16_Witness ==
    /\ ret.op = "completeVerification"
    /\ Get(inp.record, "verification_status") = Str("verified")
    /\ ret.result.verificationStatus = "suspicious"
    /\ WithCachedStatus("pending").verificationStatus = "suspicious"

\* C17: every engine instance, whatever its own key pair, returns the same
\* isValid for the record, the signature and the public key supplied with it,
\* an empty or missing supplied key included
C17_OwnKeysIrrelevant ==
    ret.op = "verifySignature" =>
        \A k \in KeyPairs :
            verifySignature(Engine(k), ret.record, ret.signature, ret.publicKey).isValid
                = ret.result.isValid

\* ------------------------------ properties of the batch route, continued
BatchRejected ==
    /\ response.status = 400
    /\ "error" \in DOMAIN response.body
    /\ "results" \notin DOMAIN response.body
    /\ response.fetched = <<>>

\* C18: a batch request whose item list is missing, is not a list, is empty or
\* has more than 50 items is answered with an error and no item's
\* verification is requested; a list of 1 to 50 items is processed, every
\* item of it
C18_BatchSizeChecked ==
    BatchAnswered =>
        LET body == response.request.body
        IN  IF body.isArray /\ Len(body.records) \in 1..BatchCap
            THEN /\ response.status = 200
                 /\ response.fetched = body.records
                 /\ Len(response.body.results) = Len(body.records)
            ELSE BatchRejected

\* a list of 51 items has been rejected with no item verified
C18_Witness ==
    /\ BatchAnswered
    /\ response.request.body.isArray
    /\ Len(response.request.body.records) = BatchCap + 1
    /\ BatchRejected

\* ------------------------------ properties of the canonical form, continued
\* C19: canonicalizing or hashing a record that holds a callable or a binary
\* blob, at the top level or nested, fails: no canonical form and no hash is
\* returned for it
C19_UnsupportedKindsRejected ==
    (Canonicalized /\ ~Supported(inp.a)) => ret.threw

\* ------------------------------ properties of the read routes
ReadRoutes ==
    { "GET /api/verify/:recordType/:recordId",
      "POST /api/verify/batch",
      "GET /api/verify/:recordType/:recordId/certificate" }

\* C21: a step of the single verification, the batch verification or the
\* certificate route leaves every table as it was: the records with their
\* record_hash and verification_status, the approvals and the audit log
C21_ReadRoutesWriteNothing ==
    [][ response'.route \in ReadRoutes =>
            /\ \A t \in Tables : db'[t] = db[t]
            /\ db'.approvals = db.approvals
            /\ db'.audit_log = db.audit_log ]_vars

\* a verification has computed 'suspicious' or 'verified' for a record whose
\* row still holds the cached status 'pending'
C21_Witness ==
    /\ VerifyAnswered
    /\ response.status = 200
    /\ response.body.verificationSummary.overallStatus \in {"suspicious", "verified"}
    /\ LET i == RowIndex(db.budgets, response.body.recordId)
       IN  /\ i # 0
           /\ Get(db.budgets[i], "verification_status") = Str("pending")

\* ------------------------------ properties of the certificate, continued
\* the audit entries that exist for the certificate's record
EntriesOfSubject ==
    { e \in SeqToSet(db.audit_log) :
        /\ e.table_name = tableMap[response.body.subject.recordType]
        /\ e.record_id = response.body.subject.recordId }

\* C22: the certificate's totalChanges is the number of audit entries that
\* exist for the record, and its lastModified is the changed_at of the most
\* recent of them, or the record's created_at when there is none
C22_AuditSummaryCounts ==
    CertificateIssued =>
        LET auditTrail == response.body.verification.auditTrail
            table == db[tableMap[response.body.subject.recordType]]
            record == table[RowIndex(table, response.body.subject.recordId)]
        IN  /\ auditTrail.totalChanges = Cardinality(EntriesOfSubject)
            /\ auditTrail.lastModified =
                 IF EntriesOfSubject = {} THEN Get(record, "created_at").n
                 ELSE CHOOSE t \in {e.changed_at : e \in EntriesOfSubject} :
                          \A e \in EntriesOfSubject : e.changed_at <= t

\* ------------------------------ properties of the canonical form, continued
\* the second record is the first with its amount given as a number
AmountAsNumber ==
    /\ Get(inp.a, "amount") = DecimalStr(Get(inp.a, "amount").n)
    /\ inp.b = AsRequestBody(inp.a)

\* C23: a record with its amount as a decimal string and the same record with
\* the amount as a number of equal value have the same canonical JSON and
\* the same hash
C23_OneAmountRepresentation ==
    (Canonicalized /\ AmountAsNumber) => ret.a = ret.b

\* ------------------------------ properties of the write routes, continued
\* C24: a step that changes a non-excluded field of a stored record leaves
\* that record with verification_status 'pending'
C24_MutationInvalidatesStatus ==
    [][ \A t \in Tables : \A i \in 1..Len(db[t]) :
            DiffersOutsideExclusion(db[t][i], db'[t][i]) =>
                Get(db'[t][i], "verification_status") = Str("pending") ]_vars

\* ------------------------------ properties of the pooled clients
\* C26: a client that is back in the pool has no transaction open: every
\* handler that sent BEGIN sent COMMIT or ROLLBACK before client.release()
C26_ReleasedClientsHaveNoTransaction ==
    \A c \in Clients : clients[c].pc = "idle" => ~clients[c].inTransaction

\* ------------------------------ properties of concurrent updates
\* the updates of the budget that have committed
CommittedUpdates(id) ==
    { e \in SeqToSet(db.audit_log) :
        e.table_name = "budgets" /\ e.record_id = id /\ e.action = "UPDATE" }

\* C25: when two updates of a budget have committed and no handler is left
\* running, the budget's record_hash is the hash of the canonical form of the
\* stored row (its amounts taken as decimal strings or as numbers)
C25_HashAfterConcurrentUpdates ==
    \A i \in 1..Len(db.budgets) :
        ( /\ InFlight = {}
          /\ Cardinality(CommittedUpdates(Get(db.budgets[i], "id"))) = 2 )
            => Get(db.budgets[i], "record_hash")
                   \in {generateHash(form) : form \in FieldValueForms(db.budgets[i])}

\* ------------------------------ properties of budget creation
\* the last approval is the system approval of the last budget
LastApprovalOfLastBudget(database) ==
    /\ database.budgets # <<>>
    /\ database.approvals # <<>>
    /\ LET approval == database.approvals[Len(database.approvals)]
       IN  /\ approval.related_record_type = "budget"
           /\ approval.related_record_id
                  = Get(database.budgets[Len(database.budgets)], "id")

\* C27: a step of POST /api/budgets either adds one budget row and the
\* approval row of that budget and answers 201, or leaves the budgets and the
\* approvals as they were and answers with an error
C27_BudgetCreationAtomic ==
    [][ response'.route = "POST /api/budgets" =>
            \/ /\ response'.status = 201
               /\ Len(db'.budgets) = Len(db.budgets) + 1
               /\ Len(db'.approvals) = Len(db.approvals) + 1
               /\ LastApprovalOfLastBudget(db')
            \/ /\ response'.status # 201
               /\ db'.budgets = db.budgets
               /\ db'.approvals = db.approvals ]_vars

\* a creation has failed with no budget stored, so not on the unique
\* record_hash but in signRecord or in the INSERT INTO approvals, and no row
\* is left
C27_Witness ==
    /\ response.route = "POST /api/budgets"
    /\ response.status = 500
    /\ db.budgets = <<>>
    /\ db.approvals = <<>>

\* ------------------------------ properties of the engine, continued
\* C28: the status completeVerification returns is 'verified', 'pending' or
\* 'suspicious', and overallValid is true exactly when it is 'verified' or
\* 'pending'
C28_OverallValidMatchesStatus ==
    ret.op = "completeVerification" =>
        /\ ret.result.verificationStatus \in {"verified", "pending", "suspicious"}
        /\ ret.result.overallValid
               <=> ret.result.verificationStatus \in {"verified", "pending"}

\* a record whose hash matches and one of whose two signatures fails: the
\* result is 'suspicious' and not valid overall
C28_Witness ==
    /\ ret.op = "completeVerification"
    /\ ret.result.hashVerification.isValid
    /\ Len(ret.result.signatureVerifications) = 2
    /\ ret.result.signatureVerifications[1].isValid
    /\ ~ret.result.signatureVerifications[2].isValid
    /\ ret.result.verificationStatus = "suspicious"
    /\ ~ret.result.overallValid

\* ------------------------------ properties of the batch route, continued
\* the results of the batch response that have one of these statuses
ResultsWithStatus(statuses) ==
    { i \in 1..Len(response.body.results) :
        response.body.results[i].status \in statuses }

\* C29: in a batch response the verified count is the number of results with
\* status 'verified', each of the other counts is the number of results with
\* its status, and the four counts add up to totalRecords
C29_SummaryPartitionsBatch ==
    (BatchAnswered /\ response.status = 200) =>
        LET summary == response.body.summary
        IN  /\ summary.verified = Cardinality(ResultsWithStatus({"verified"}))
            /\ summary.pending = Cardinality(ResultsWithStatus({"pending"}))
            /\ summary.suspicious = Cardinality(ResultsWithStatus({"suspicious"}))
            /\ summary.errors = Cardinality(ResultsWithStatus({"error"}))
            /\ summary.verified + summary.pending + summary.suspicious
                   + summary.errors = summary.totalRecords

\* ------------------------------ properties of the stored canonical form
\* the rows the routes have written
StoredRows == UNION { SeqToSet(db[t]) : t \in Tables }

\* C30: in every row written by a create or an update, record_hash is the
\* SHA-256 digest of the JSON held in the row's canonical_json
C30_HashOfStoredCanonicalJson ==
    \A row \in StoredRows :
        Get(row, "record_hash") = Hex(Sha256(Get(row, "canonical_json").json))

=============================================================================
